---- MODULE Spec2Model ----
(***************************************************************************)
(* Model of i18n-generator: the tree extractors (recursive in the plugin   *)
(* and the CLI, work-list based in the optimized generator and its worker),*)
(* the chunk loop around them, and the pipeline of the optimized generator *)
(* (waves of files, workers, batch writes).                                *)
(*                                                                         *)
(* Spec        one file's extraction: every requested language in turn, by *)
(*             one of the four extractors, over a bounded set of           *)
(*             documents.                                                  *)
(* SpecRun     one run() of the optimized generator over a directory, one  *)
(*             call of the CLI's generateTranslations, or one build with   *)
(*             the plain plugin.                                           *)
(* SpecWaves   run() over longer directories of well-formed files.         *)
(* SpecInline  run() with the files on the main thread, their chunk loops  *)
(*             turn by turn.                                               *)
(* SpecPlugin  one build with the plain or the optimized plugin.           *)
(***************************************************************************)
EXTENDS Integers, Sequences, FiniteSets, TLC

VARIABLES
    content,      \* the parsed document of the file being extracted
    op,           \* which extractor runs: "chunked", "worker", "plugin", "cli"
    chunkSize,    \* this.chunkSize / workerData.chunkSize
    li,           \* index in languages of the language being extracted
    i,            \* loop variable i of extractTranslationsChunked
    result,       \* result of extractTranslationsChunked, under construction
    yields,       \* number of setImmediate yields of the current call
    steps,        \* what the current call has done so far, in order: its
                  \* chunks, each with its traversal, and its yields
    heap,         \* the objects of the extraction: [h, root, entries, result,
                  \* outs], h the cells, root the cell of content, entries
                  \* the array Object.entries(obj) of the current call,
                  \* result the cell of its result, outs the cells of the
                  \* outputContent of the languages done
    results,      \* results of the file: one [lang, outputContent] per language
    pc,           \* "lang", "chunk", "yield", "done"
    \* ---- one run() of the optimized generator ----
    inputDir,     \* [exists, entries]: the input directory and what it holds
    useWorkers,   \* this.useWorkers
    maxWorkers,   \* this.maxWorkers
    phase,        \* where run() is: "Idle", "Discovering", "Dispatching",
                  \* "Collecting", "Writing", "Done", "Failed"
    inputFiles,   \* const inputFiles of run(): the .json entries
    wi,           \* loop variable i of processFilesInParallel
    task,         \* per file, its promise: "none", "reading", "extracting",
                  \* "worker", "fulfilled", "rejected"
    taskValue,    \* per file, what its promise settled with
    worker,       \* per file, its Worker: "none", "running", "ended",
                  \* "crashed"
    chan,         \* per file, the events of its Worker not yet handled
    collected,    \* const results of processFilesInParallel
    writing,      \* writeFilesInBatch: "no", "awaiting", "resolved", "rejected"
    fileResults,  \* the argument of writeFilesInBatch
    writes,       \* per element of fileResults: "unissued", "inflight",
                  \* "written", "failed"
    dirs,         \* the directories that exist under outputDir
    written,      \* the files written: a set of [outputPath, outputContent]
    reports,      \* the console.error calls of run(), in order
    error,        \* what run() rejected with
    \* ---- the configuration and the command line tool ----
    languages,    \* this.languages / config.languages
    program,      \* what runs: "extract", "run" (run() of the optimized
                  \* generator), "cli" (generateTranslations of the CLI),
                  \* "plugin" (a build with i18nGenerator), "apply" (a
                  \* build with i18nGeneratorOptimized)
    cli,          \* the CLI process: [pc, inputFiles, f, l, content, exitCode,
                  \* warnings, errors, totalGenerated]
    inline,       \* per file processed on the main thread, where its
                  \* processFileMainThread is: [li, i, result, results, pc]
    plugin        \* the webpack plugin: [pc, shouldRun, hooks, calls, errors,
                  \* inputFiles, f, l, content], hooks the compiler hooks
                  \* tapped, calls the arguments the hook's callback was
                  \* called with, in order, errors its console.error calls

xvars == <<content, op, chunkSize, li, i, result, yields, steps, heap,
          results, pc>>

rvars == <<inputDir, useWorkers, maxWorkers, phase, inputFiles, wi, task,
           taskValue, worker, chan, collected, writing, fileResults, writes,
           dirs, written, reports, error>>

cvars == <<languages, program, cli, inline, plugin>>

vars == <<xvars, rvars, cvars>>

(***************************************************************************)
(* Bounds of the model.                                                    *)
(***************************************************************************)
\* Largest number of keys a document holds, all nesting levels together.
MaxNodes == 3
\* Largest chunkSize tried.
MaxChunk == 3
\* Largest number of entries of the input directory.
MaxFiles == 2
\* Largest maxWorkers tried.
MaxPool == 2
\* Largest number of writes that fail in one run.
MaxWriteFaults == 1
\* Largest number of files of the directories of SpecWaves.
MaxWaveFiles == 3

(***************************************************************************)
(* JSON values.  Every value is a record [t, s, e]: t the type, s the      *)
(* characters of a string, e the entries <<[k, v], ...>> of an object in   *)
(* key order (Object.keys order for non-numeric keys: insertion order).    *)
(***************************************************************************)
Str(s) == [t |-> "str", s |-> s, e |-> <<>>]
Arr == [t |-> "arr", s |-> "", e |-> <<>>]
Null == [t |-> "null", s |-> "", e |-> <<>>]
Undefined == [t |-> "undef", s |-> "", e |-> <<>>]
Obj(es) == [t |-> "obj", s |-> "", e |-> es]
EmptyObj == Obj(<<>>)

\* Object.keys(o)
ObjectKeys(o) == [n \in 1..Len(o.e) |-> o.e[n].k]

\* key in o (own property)
HasOwn(o, key) == \E n \in 1..Len(o.e) : o.e[n].k = key

\* o[key]: undefined when o has no such property
Get(o, key) ==
    IF HasOwn(o, key)
    THEN o.e[CHOOSE n \in 1..Len(o.e) : o.e[n].k = key].v
    ELSE Undefined

\* key.split('.'), for the keys of the documents tried
Segments(key) == IF key = "a.b" THEN <<"a", "b">> ELSE <<key>>

\* a slip: a key in dot notation taken as a path, o[a] = {b: v} for o['a.b']
PutSplit(o, key, v) ==
    LET first == Head(Segments(key))
        w == IF Len(Segments(key)) = 1 THEN v
             ELSE Obj(<<[k |-> Segments(key)[2], v |-> v]>>)
    IN  IF HasOwn(o, first)
        THEN Obj([n \in 1..Len(o.e) |->
                     IF o.e[n].k = first THEN [k |-> first, v |-> w]
                     ELSE o.e[n]])
        ELSE Obj(Append(o.e, [k |-> first, v |-> w]))

\* o[key] = v: an existing property keeps its place, a new one goes last
Put(o, key, v) ==
    IF HasOwn(o, key)
    THEN Obj([n \in 1..Len(o.e) |->
                 IF o.e[n].k = key THEN [k |-> key, v |-> v] ELSE o.e[n]])
    ELSE Obj(Append(o.e, [k |-> key, v |-> v]))

\* JavaScript truthiness, as tested by if (value[lang])
Truthy(v) ==
    /\ v.t \notin {"undef", "null"}
    /\ ~(v.t = "str" /\ v.s = "")

\* a slip: result[key] = v, the target of the popped pair forgotten
PutPathAtRoot(root, path, key, v) == Put(root, key, v)

\* target[key] = v, where target is the object at path under root
RECURSIVE PutPath(_, _, _, _)
PutPath(root, path, key, v) ==
    IF path = <<>> THEN Put(root, key, v)
    ELSE Put(root, Head(path),
             PutPath(Get(root, Head(path)), Tail(path), key, v))

(***************************************************************************)
(* Configuration.                                                          *)
(***************************************************************************)
\* options.languages || ['vi', 'en']: the default of the constructors
DefaultLanguages == <<"vi", "en">>

\* this.languageSet = new Set(this.languages)
languageSet == {languages[n] : n \in 1..Len(languages)}

\* the plugin before apply(compiler) is called
PluginIdle ==
    [pc |-> "idle", shouldRun |-> FALSE, hooks |-> <<>>, calls |-> <<>>,
     errors |-> 0, inputFiles |-> <<>>, f |-> 1, l |-> 1,
     content |-> EmptyObj]

\* the CLI process before generateTranslations is called
CliIdle ==
    [pc |-> "idle", inputFiles |-> <<>>, f |-> 1, l |-> 1,
     content |-> EmptyObj, exitCode |-> 0, warnings |-> 0, errors |-> 0,
     totalGenerated |-> 0, argv |-> <<>>, flags |-> <<>>,
     cwd |-> [config |-> "esm", pkg |-> "absent"]]

(***************************************************************************)
(* The work-list extractor of the optimized generator and of the worker.   *)
(***************************************************************************)
\* typeof value === 'object'
TypeofObject(value) == value.t \in {"obj", "arr", "null"}

\* a slip: the Array.isArray test left out
IsArrayNever(value) == FALSE

\* Array.isArray(value)
IsArray(value) == value.t = "arr"

\* value === null || typeof value !== 'object' || Array.isArray(value)
IsPrimitive(value) ==
    value.t = "null" \/ ~TypeofObject(value) \/ IsArray(value)

\* if (value[lang])
HasLang(value, lang) == Truthy(Get(value, lang))

\* a slip: every() written for some()
hasLangKeysEvery(value, langSet) ==
    \A n \in 1..Len(value.e) : value.e[n].k \in langSet

\* Object.keys(value).some(k => languageSet.has(k))
hasLangKeys(value, langSet) ==
    \E n \in 1..Len(value.e) : ObjectKeys(value)[n] \in langSet

\* a slip: the hasLangKeys test forgotten, every object without a truthy
\* value[lang] taken for a nested structure
VisitKeyNoLeafTest(st, source, path, key, lang, langSet) ==
    LET value == Get(source, key)
        seen == [st EXCEPT !.visits = @ + 1]
    IN
    IF IsPrimitive(value) THEN seen
    ELSE IF HasLang(value, lang)
    THEN [seen EXCEPT
              !.result = PutPath(st.result, path, key, Get(value, lang))]
    ELSE [seen EXCEPT
              !.stack = Append(st.stack,
                               [source |-> value, path |-> Append(path, key)]),
              !.pushed = Append(st.pushed, Append(path, key)),
              !.result = PutPath(st.result, path, key, EmptyObj)]

\* The body of the for loop, for one key of source; st = [stack, result,
\* visits, pushed, popped], path leads from the result to the target of
\* source.  stack and result are the code's; visits counts the keys the loop
\* has examined, pushed and popped list the paths of the objects that
\* stack.push() and stack.pop() have handled, in order.
VisitKey(st, source, path, key, lang, langSet) ==
    LET value == Get(source, key)
        seen == [st EXCEPT !.visits = @ + 1]
    IN
    IF IsPrimitive(value) THEN seen
    ELSE IF HasLang(value, lang)
    THEN [seen EXCEPT
              !.result = PutPath(st.result, path, key, Get(value, lang))]
    ELSE IF ~hasLangKeys(value, langSet)
    THEN [seen EXCEPT
              !.stack = Append(st.stack,
                               [source |-> value, path |-> Append(path, key)]),
              !.pushed = Append(st.pushed, Append(path, key)),
              !.result = PutPath(st.result, path, key, EmptyObj)]
    ELSE seen

\* for (const key of Object.keys(source)), from the n-th key on
RECURSIVE ForKeys(_, _, _, _, _, _)
ForKeys(st, source, path, n, lang, langSet) ==
    IF n > Len(source.e) THEN st
    ELSE ForKeys(VisitKey(st, source, path, ObjectKeys(source)[n], lang, langSet),
                 source, path, n + 1, lang, langSet)

\* while (stack.length > 0) { const {source, target} = stack.pop(); ... }
\* the value is st as the loop leaves it
RECURSIVE WhileStack(_, _, _)
WhileStack(st, lang, langSet) ==
    IF st.stack = <<>> THEN st
    ELSE LET top == st.stack[Len(st.stack)]
             rest == SubSeq(st.stack, 1, Len(st.stack) - 1)
         IN  WhileStack(ForKeys([st EXCEPT !.stack = rest,
                                           !.popped = Append(@, top.path)],
                                top.source, top.path, 1, lang, langSet),
                        lang, langSet)

\* const result = {}; const stack = [{ source: obj, target: result }];
StackOf(obj) ==
    [stack |-> <<[source |-> obj, path |-> <<>>]>>, result |-> EmptyObj,
     visits |-> 0, pushed |-> <<>>, popped |-> <<>>]

\* i18nGeneratorOptimized.extractTranslationsIterative(obj, lang)
extractTranslationsIterative(obj, lang) ==
    WhileStack(StackOf(obj), lang, languageSet).result

\* worker.js: extractTranslationsIterative(obj, lang, languageSet)
workerExtractTranslationsIterative(obj, lang, langSet) ==
    WhileStack(StackOf(obj), lang, langSet).result

(***************************************************************************)
(* The recursive extractor of the plugin and of the CLI.                   *)
(***************************************************************************)
\* a slip: the key compared with the first language only
IncludesFirst(langs, k) == langs # <<>> /\ langs[1] = k

\* languages.includes(k)
Includes(langs, k) == \E n \in 1..Len(langs) : langs[n] = k

\* value && typeof value === 'object' && !Array.isArray(value)
IsPlainObject(value) ==
    Truthy(value) /\ TypeofObject(value) /\ ~IsArray(value)

\* processObject(source, target), from the n-th key of source on; the value
\* is target as the call leaves it
RECURSIVE processObject(_, _, _, _, _)
processObject(source, target, n, lang, langs) ==
    IF n > Len(source.e) THEN target
    ELSE LET key == ObjectKeys(source)[n]
             value == Get(source, key)
             next ==
                 IF ~IsPlainObject(value) THEN target
                 ELSE IF Truthy(Get(value, lang))
                 THEN Put(target, key, Get(value, lang))
                 ELSE IF ~(\E m \in 1..Len(value.e) :
                              Includes(langs, ObjectKeys(value)[m]))
                 THEN Put(target, key,
                          processObject(value, EmptyObj, 1, lang, langs))
                 ELSE target
         IN  processObject(source, next, n + 1, lang, langs)

\* i18nGenerator.extractTranslations(obj, lang) of the plugin
extractTranslations(obj, lang) ==
    processObject(obj, EmptyObj, 1, lang, languages)

\* extractTranslations(obj, languages, lang) of the CLI
cliExtractTranslations(obj, langs, lang) ==
    processObject(obj, EmptyObj, 1, lang, langs)

(***************************************************************************)
(* The chunk loop.                                                         *)
(***************************************************************************)
Min(a, b) == IF a < b THEN a ELSE b

\* a slip: the last entry of every slice left out
SliceShort(entries, from, to) ==
    SubSeq(entries, from + 1, Min(to, Len(entries)) - 1)

\* entries.slice(from, to), 0 <= from
Slice(entries, from, to) == SubSeq(entries, from + 1, Min(to, Len(entries)))

\* Object.fromEntries(chunk): the keys of a chunk are distinct
FromEntries(chunk) == Obj(chunk)

\* a slip: result = chunkResult written for Object.assign(result, chunkResult)
ObjectAssignReplace(target, src) == src

\* Object.assign(target, src)
RECURSIVE ObjectAssign(_, _)
ObjectAssign(target, src) ==
    IF src.e = <<>> THEN target
    ELSE ObjectAssign(Put(target, Head(src.e).k, Head(src.e).v),
                      Obj(Tail(src.e)))

\* const chunkObj = Object.fromEntries(chunk), for the chunk that starts at
\* entry from
ChunkObj(obj, from, size) == FromEntries(Slice(obj.e, from, from + size))

\* const chunkResult = extractTranslationsIterative(chunkObj, lang), for the
\* chunk that starts at entry from
ChunkResult(which, obj, from, size, lang) ==
    LET chunkObj == ChunkObj(obj, from, size) IN
    IF which = "worker"
    THEN workerExtractTranslationsIterative(chunkObj, lang, languageSet)
    ELSE extractTranslationsIterative(chunkObj, lang)

\* what one turn of the for loop did: the entries of its chunk and the
\* traversal of chunkObj as the while loop left it
ChunkEvent(obj, from, size, lang) ==
    LET chunkObj == ChunkObj(obj, from, size)
        st == WhileStack(StackOf(chunkObj), lang, languageSet)
    IN  [ev |-> "chunk", from |-> from, n |-> Len(chunkObj.e),
         visits |-> st.visits, pushed |-> st.pushed, popped |-> st.popped,
         stack |-> st.stack]

\* await new Promise(resolve => setImmediate(resolve)) after the chunk that
\* starts at entry from
YieldEvent(from) ==
    [ev |-> "yield", from |-> from, n |-> 0, visits |-> 0, pushed |-> <<>>,
     popped |-> <<>>, stack |-> <<>>]

(***************************************************************************)
(* The objects of one file's extraction as the engine holds them: a heap   *)
(* of cells, one per object, each the entries <<[k, v], ...>> of its       *)
(* object, where v is [t, s, a]: a string, an array, null or undefined as  *)
(* above (a = 0), or a reference to the object in cell a (t = "ref").  The *)
(* same object may be referred to from several places.                     *)
(***************************************************************************)
Ref(a) == [t |-> "ref", s |-> "", a |-> a]

\* a value that is no plain object, as a cell holds it
Scalar(value) == [t |-> value.t, s |-> value.s, a |-> 0]

\* JSON.parse(raw): the cells of a document, laid out after those of h; the
\* value is [h, v], v the reference to the parsed value
RECURSIVE Store(_, _)
RECURSIVE StoreEntries(_, _, _, _)
Store(h, value) ==
    IF value.t # "obj" THEN [h |-> h, v |-> Scalar(value)]
    ELSE LET a == Len(h) + 1 IN
         [h |-> StoreEntries(Append(h, <<>>), a, value.e, 1), v |-> Ref(a)]

StoreEntries(h, a, es, n) ==
    IF n > Len(es) THEN h
    ELSE LET r == Store(h, es[n].v) IN
         StoreEntries([r.h EXCEPT ![a] = Append(@, [k |-> es[n].k, v |-> r.v])],
                      a, es, n + 1)

\* the JSON value that v stands for in h
RECURSIVE Load(_, _)
Load(h, v) ==
    IF v.t # "ref" THEN [t |-> v.t, s |-> v.s, e |-> <<>>]
    ELSE Obj([n \in 1..Len(h[v.a]) |->
                 [k |-> h[v.a][n].k, v |-> Load(h, h[v.a][n].v)]])

\* o[key], o the object in cell a
HeapGet(h, a, key) ==
    IF \E n \in 1..Len(h[a]) : h[a][n].k = key
    THEN h[a][CHOOSE n \in 1..Len(h[a]) : h[a][n].k = key].v
    ELSE Scalar(Undefined)

\* o[key] = v, o the object in cell a: the cell is changed in place
HeapPut(h, a, key, v) ==
    IF \E n \in 1..Len(h[a]) : h[a][n].k = key
    THEN [h EXCEPT ![a] = [n \in 1..Len(h[a]) |->
                              IF h[a][n].k = key THEN [k |-> key, v |-> v]
                              ELSE h[a][n]]]
    ELSE [h EXCEPT ![a] = Append(@, [k |-> key, v |-> v])]

\* a slip: the source object taken as its own target, target[key] = value
HeapVisitKeyInPlace(st, source, target, key, lang, langSet) ==
    LET value == HeapGet(st.h, source, key) IN
    IF value.t # "ref" THEN st
    ELSE IF Truthy(HeapGet(st.h, value.a, lang))
    THEN [st EXCEPT !.h = HeapPut(st.h, target, key,
                                  HeapGet(st.h, value.a, lang))]
    ELSE IF ~(\E n \in 1..Len(st.h[value.a]) : st.h[value.a][n].k \in langSet)
    THEN [st EXCEPT
              !.h = HeapPut(st.h, target, key, value),
              !.stack = Append(st.stack,
                               [source |-> value.a, target |-> value.a])]
    ELSE st

\* The body of the for loop of extractTranslationsIterative on the heap, for
\* one key of the object in cell source; st = [h, stack, result], target the
\* cell of the popped target.
HeapVisitKey(st, source, target, key, lang, langSet) ==
    LET value == HeapGet(st.h, source, key) IN
    IF value.t # "ref" THEN st
    ELSE IF Truthy(HeapGet(st.h, value.a, lang))
    THEN [st EXCEPT !.h = HeapPut(st.h, target, key,
                                  HeapGet(st.h, value.a, lang))]
    ELSE IF ~(\E n \in 1..Len(st.h[value.a]) : st.h[value.a][n].k \in langSet)
    THEN LET fresh == Len(st.h) + 1 IN
         [st EXCEPT
              !.h = HeapPut(Append(st.h, <<>>), target, key, Ref(fresh)),
              !.stack = Append(st.stack,
                               [source |-> value.a, target |-> fresh])]
    ELSE st

\* for (const key of Object.keys(source)): keys is the array Object.keys
\* returned when the loop began
RECURSIVE HeapForKeys(_, _, _, _, _, _, _)
HeapForKeys(st, source, target, keys, n, lang, langSet) ==
    IF n > Len(keys) THEN st
    ELSE HeapForKeys(HeapVisitKey(st, source, target, keys[n], lang, langSet),
                     source, target, keys, n + 1, lang, langSet)

\* while (stack.length > 0) { const {source, target} = stack.pop(); ... }
RECURSIVE HeapWhileStack(_, _, _)
HeapWhileStack(st, lang, langSet) ==
    IF st.stack = <<>> THEN st
    ELSE LET top == st.stack[Len(st.stack)]
             rest == SubSeq(st.stack, 1, Len(st.stack) - 1)
             keys == [n \in 1..Len(st.h[top.source]) |-> st.h[top.source][n].k]
         IN  HeapWhileStack(HeapForKeys([st EXCEPT !.stack = rest],
                                        top.source, top.target, keys, 1,
                                        lang, langSet),
                            lang, langSet)

\* extractTranslationsIterative(obj, lang) on the heap, obj the object in
\* cell a: const result = {}; the value is [h, stack, result], result the
\* cell of the returned object
HeapExtract(h, a, lang, langSet) ==
    LET fresh == Len(h) + 1 IN
    HeapWhileStack([h |-> Append(h, <<>>),
                    stack |-> <<[source |-> a, target |-> fresh]>>,
                    result |-> fresh], lang, langSet)

\* Object.assign(target, src), both cells of h, from the n-th entry of src
RECURSIVE HeapAssign(_, _, _, _)
HeapAssign(h, target, src, n) ==
    IF n > Len(h[src]) THEN h
    ELSE HeapAssign(HeapPut(h, target, h[src][n].k, h[src][n].v),
                    target, src, n + 1)

\* one turn of the for loop of extractTranslationsChunked on the heap:
\* chunk = entries.slice(from, from + size), chunkObj =
\* Object.fromEntries(chunk), chunkResult = extractTranslationsIterative(
\* chunkObj, lang), Object.assign(result, chunkResult)
HeapChunk(hp, from, size, lang) ==
    LET chunkObj == Len(hp.h) + 1
        st == HeapExtract(Append(hp.h, Slice(hp.entries, from, from + size)),
                          chunkObj, lang, languageSet)
    IN  [hp EXCEPT !.h = HeapAssign(st.h, hp.result, st.result, 1)]

\* the heap after const content = JSON.parse(rawContent)
HeapOf(doc) ==
    [h |-> Store(<<>>, doc).h, root |-> Store(<<>>, doc).v.a,
     entries |-> <<>>, result |-> 0, outs |-> <<>>]

\* no document has been parsed
HeapIdle == [h |-> <<>>, root |-> 0, entries |-> <<>>, result |-> 0,
             outs |-> <<>>]

(***************************************************************************)
(* The documents tried: every document of at most MaxNodes keys in all,    *)
(* over KeySeq and Scalars, the keys of an object in the order of KeySeq:  *)
(* a key written in dot notation and the two default languages.            *)
(***************************************************************************)
KeySeq == <<"a.b", "vi", "en">>

Scalars == {Str("X"), Str(""), Arr, Null}

RECURSIVE EntriesOfSize(_, _)
EntriesOfSize(n, from) ==
    IF n = 0 THEN {<<>>}
    ELSE UNION {
           { <<[k |-> KeySeq[ki], v |-> val]>> \o rest :
                 val \in (IF j = 0 THEN Scalars ELSE {})
                         \cup {Obj(es) : es \in EntriesOfSize(j, 1)},
                 rest \in EntriesOfSize(n - 1 - j, ki + 1) } :
             ki \in from..Len(KeySeq), j \in 0..(n - 1) }

Docs == UNION { {Obj(es) : es \in EntriesOfSize(n, 1)} : n \in 0..MaxNodes }

(***************************************************************************)
(* One file's extraction: for (const lang of languages) { ... }            *)
(***************************************************************************)
Ops == {"chunked", "worker", "plugin", "cli"}
ChunkedOps == {"chunked", "worker"}

\* no run() is under way
RunIdle ==
    /\ inputDir = [exists |-> TRUE, entries |-> <<>>]
    /\ useWorkers = TRUE
    /\ maxWorkers = 2
    /\ phase = "Idle"
    /\ inputFiles = <<>>
    /\ wi = 0
    /\ task = <<>>
    /\ taskValue = <<>>
    /\ worker = <<>>
    /\ chan = <<>>
    /\ collected = <<>>
    /\ writing = "no"
    /\ fileResults = <<>>
    /\ writes = <<>>
    /\ dirs = {}
    /\ written = {}
    /\ reports = <<>>
    /\ error = "none"

Init ==
    /\ RunIdle
    /\ languages = DefaultLanguages
    /\ program = "extract"
    /\ cli = CliIdle
    /\ inline = <<>>
    /\ plugin = PluginIdle
    /\ content \in Docs
    /\ op \in Ops
    /\ chunkSize \in (IF op \in ChunkedOps THEN 1..MaxChunk ELSE {1})
    /\ li = 1
    /\ i = 0
    /\ result = EmptyObj
    /\ yields = 0
    /\ steps = <<>>
    /\ heap = HeapOf(content)
    /\ results = <<>>
    /\ pc = "lang"

\* the call of extractTranslationsChunked(content, lang): result = {}, i = 0
BeginChunked ==
    /\ pc = "lang" /\ li <= Len(languages) /\ op \in ChunkedOps
    /\ result' = EmptyObj
    /\ i' = 0
    /\ yields' = 0
    /\ steps' = <<>>
    /\ heap' = [heap EXCEPT !.h = Append(@, <<>>),
                            !.result = Len(heap.h) + 1,
                            !.entries = heap.h[heap.root]]
    /\ pc' = "chunk"
    /\ UNCHANGED <<content, op, chunkSize, li, results>>
    /\ UNCHANGED <<rvars, cvars>>

\* a slip: the await taken after every chunk, the last one included
ChunkStepAlwaysYield ==
    /\ pc = "chunk" /\ i < Len(content.e)
    /\ result' = ObjectAssign(result,
                     ChunkResult(op, content, i, chunkSize, languages[li]))
    /\ steps' = Append(steps,
                    ChunkEvent(content, i, chunkSize, languages[li]))
    /\ heap' = HeapChunk(heap, i, chunkSize, languages[li])
    /\ pc' = "yield" /\ i' = i
    /\ UNCHANGED <<content, op, chunkSize, li, yields, results>>
    /\ UNCHANGED <<rvars, cvars>>

\* one turn of the for loop, up to its await or to the next turn
ChunkStep ==
    /\ pc = "chunk" /\ i < Len(content.e)
    /\ result' = ObjectAssign(result,
                     ChunkResult(op, content, i, chunkSize, languages[li]))
    /\ steps' = Append(steps,
                    ChunkEvent(content, i, chunkSize, languages[li]))
    /\ heap' = HeapChunk(heap, i, chunkSize, languages[li])
    /\ IF i + chunkSize < Len(content.e)
       THEN pc' = "yield" /\ i' = i
       ELSE pc' = "chunk" /\ i' = i + chunkSize
    /\ UNCHANGED <<content, op, chunkSize, li, yields, results>>
    /\ UNCHANGED <<rvars, cvars>>

\* setImmediate fires: the loop goes on with i += chunkSize
Resume ==
    /\ pc = "yield"
    /\ yields' = yields + 1
    /\ steps' = Append(steps, YieldEvent(i))
    /\ i' = i + chunkSize
    /\ pc' = "chunk"
    /\ UNCHANGED <<content, op, chunkSize, li, result, heap, results>>
    /\ UNCHANGED <<rvars, cvars>>

\* return result; the caller pushes it on results
ReturnChunked ==
    /\ pc = "chunk" /\ i >= Len(content.e)
    /\ results' = Append(results,
                     [lang |-> languages[li], outputContent |-> result])
    /\ heap' = [heap EXCEPT !.outs = Append(@, heap.result)]
    /\ li' = li + 1
    /\ pc' = "lang"
    /\ UNCHANGED <<content, op, chunkSize, i, result, yields, steps>>
    /\ UNCHANGED <<rvars, cvars>>

\* the plugin and the CLI: one synchronous call per language
ExtractSync ==
    /\ pc = "lang" /\ li <= Len(languages) /\ op \notin ChunkedOps
    /\ results' = Append(results,
                     [lang |-> languages[li],
                      outputContent |->
                          IF op = "cli"
                          THEN cliExtractTranslations(content, languages,
                                                      languages[li])
                          ELSE extractTranslations(content, languages[li])])
    /\ li' = li + 1
    /\ UNCHANGED <<content, op, chunkSize, i, result, yields, steps, heap,
                   pc>>
    /\ UNCHANGED <<rvars, cvars>>

\* the loop over the languages is over
Finish ==
    /\ pc = "lang" /\ li > Len(languages)
    /\ pc' = "done"
    /\ UNCHANGED <<content, op, chunkSize, li, i, result, yields, steps,
                   heap, results>>
    /\ UNCHANGED <<rvars, cvars>>

Next ==
    \/ BeginChunked
    \/ ChunkStep
    \/ Resume
    \/ ReturnChunked
    \/ ExtractSync
    \/ Finish

Spec == Init /\ [][Next]_vars

(***************************************************************************)
(* Vocabulary of the claims about the extractors.                          *)
(***************************************************************************)
IsObject(v) == v.t = "obj"

KeysOf(v) == {v.e[n].k : n \in 1..Len(v.e)}

ValueOf(v, key) == v.e[CHOOSE n \in 1..Len(v.e) : v.e[n].k = key].v

\* a Branch: an object none of whose keys is a language of the language set
IsBranchNode(v) == IsObject(v) /\ KeysOf(v) \cap languageSet = {}

\* a Leaf: an object with at least one key in the language set
IsLeafNode(v) == IsObject(v) /\ KeysOf(v) \cap languageSet # {}

\* the keys of obj and of the Branches below it, each with its path from obj
\* (prefix is the path of obj) and its value
RECURSIVE Reached(_, _)
Reached(obj, prefix) ==
    UNION { {[p |-> Append(prefix, obj.e[n].k), v |-> obj.e[n].v]}
            \cup (IF IsBranchNode(obj.e[n].v)
                  THEN Reached(obj.e[n].v, Append(prefix, obj.e[n].k))
                  ELSE {}) : n \in 1..Len(obj.e) }

\* every key of root at every depth, whatever it is under, with path and value
RECURSIVE AllEntries(_, _)
AllEntries(root, prefix) ==
    UNION { {[p |-> Append(prefix, root.e[n].k), v |-> root.e[n].v]}
            \cup AllEntries(root.e[n].v, Append(prefix, root.e[n].k))
            : n \in 1..Len(root.e) }

\* root has a key at path
RECURSIVE HasPath(_, _)
HasPath(root, path) ==
    \/ path = <<>>
    \/ /\ IsObject(root)
       /\ Head(path) \in KeysOf(root)
       /\ HasPath(ValueOf(root, Head(path)), Tail(path))

\* the value root holds at path, when HasPath(root, path)
RECURSIVE ValueAt(_, _)
ValueAt(root, path) ==
    IF path = <<>> THEN root
    ELSE ValueAt(ValueOf(root, Head(path)), Tail(path))

\* the paths at which a document holds a Branch
BranchPaths(doc) == {r.p : r \in {x \in Reached(doc, <<>>) : IsBranchNode(x.v)}}

\* the paths at which an output holds a nested object
ObjectPaths(out) == {r.p : r \in {x \in AllEntries(out, <<>>) : IsObject(x.v)}}

\* the file's extraction is over: results holds one output per language
Extracted == pc = "done"

\* the extraction of obj for lang by the one-pass extractor that op uses
ExtractBy(which, obj, lang) ==
    CASE which = "chunked" -> extractTranslationsIterative(obj, lang)
      [] which = "worker" ->
             workerExtractTranslationsIterative(obj, lang, languageSet)
      [] which = "plugin" -> extractTranslations(obj, lang)
      [] which = "cli" -> cliExtractTranslations(obj, languages, lang)

(***************************************************************************)
(* C1  Leaf resolution: a key reached through Branches whose value is an   *)
(* object with the requested language L as a direct key is in the output   *)
(* for L, mapped to exactly value[L], whatever is stored under L (the      *)
(* empty string included).                                                 *)
(***************************************************************************)
C1_LeafResolution ==
    Extracted =>
        \A n \in 1..Len(results) : \A r \in Reached(content, <<>>) :
            (IsObject(r.v) /\ results[n].lang \in KeysOf(r.v)) =>
                /\ HasPath(results[n].outputContent, r.p)
                /\ ValueAt(results[n].outputContent, r.p)
                       = ValueOf(r.v, results[n].lang)

(***************************************************************************)
(* C2  Partial language coverage: a key whose value is an object with a    *)
(* key in the language set but without L is absent from the output for L   *)
(* (so nothing stands for it and nothing below it is emitted).             *)
(***************************************************************************)
C2_PartialCoverage ==
    Extracted =>
        \A n \in 1..Len(results) : \A r \in Reached(content, <<>>) :
            (IsLeafNode(r.v) /\ results[n].lang \notin KeysOf(r.v)) =>
                ~HasPath(results[n].outputContent, r.p)

\* a Leaf below a Branch that lacks one of the languages has been extracted
C2_Witness ==
    /\ Extracted
    /\ \E n \in 1..Len(results) : \E r \in Reached(content, <<>>) :
           /\ Len(r.p) >= 2
           /\ IsLeafNode(r.v) /\ results[n].lang \notin KeysOf(r.v)
           /\ ~HasPath(results[n].outputContent, r.p)
           /\ HasPath(results[n].outputContent, SubSeq(r.p, 1, 1))

(***************************************************************************)
(* C3  Branch recursion: a key, at any depth the traversal reaches, whose  *)
(* value is an object without any key of the language set (the empty       *)
(* object included) is in the output of every language, mapped to a nested *)
(* object equal to the extraction of that value.                           *)
(***************************************************************************)
C3_BranchRecursion ==
    Extracted =>
        \A n \in 1..Len(results) : \A r \in Reached(content, <<>>) :
            IsBranchNode(r.v) =>
                /\ HasPath(results[n].outputContent, r.p)
                /\ IsObject(ValueAt(results[n].outputContent, r.p))
                /\ ValueAt(results[n].outputContent, r.p)
                       = ExtractBy(op, r.v, results[n].lang)
                /\ (r.v = EmptyObj =>
                       ValueAt(results[n].outputContent, r.p) = EmptyObj)

\* a Branch in a Branch, the inner one empty or not, has been extracted
C3_Witness ==
    /\ Extracted
    /\ Len(results) = Len(languages)
    /\ \E r, q \in Reached(content, <<>>) :
           /\ Len(r.p) = 2 /\ r.v = EmptyObj
           /\ Len(q.p) = 1 /\ IsBranchNode(q.v) /\ q.v # EmptyObj
           /\ \A n \in 1..Len(results) :
                  /\ ValueAt(results[n].outputContent, r.p) = EmptyObj
                  /\ ValueAt(results[n].outputContent, q.p) # EmptyObj

(***************************************************************************)
(* C4  Non-object values: a key whose value is an array, a scalar or null  *)
(* is in no language's output, at the top level and below Branches.        *)
(***************************************************************************)
C4_NonObjectSkipped ==
    Extracted =>
        \A n \in 1..Len(results) : \A r \in Reached(content, <<>>) :
            ~IsObject(r.v) => ~HasPath(results[n].outputContent, r.p)

\* an array below a Branch and a null at the top level have been skipped
C4_Witness ==
    /\ Extracted
    /\ \E r, q \in Reached(content, <<>>) :
           /\ Len(r.p) = 2 /\ r.v = Arr
           /\ Len(q.p) = 1 /\ q.v = Null
           /\ \A n \in 1..Len(results) :
                  /\ ~HasPath(results[n].outputContent, r.p)
                  /\ ~HasPath(results[n].outputContent, q.p)
                  /\ HasPath(results[n].outputContent, SubSeq(r.p, 1, 1))

(***************************************************************************)
(* C5  Chunking does not change results: for every chunkSize >= 1 the      *)
(* chunked extraction returns exactly the output of one pass of            *)
(* extractTranslationsIterative over the whole document.                   *)
(***************************************************************************)
C5_ChunkedEqualsOnePass ==
    (Extracted /\ op \in ChunkedOps) =>
        \A n \in 1..Len(results) :
            results[n].outputContent
                = ExtractBy(op, content, results[n].lang)

\* a document cut in several chunks, more than one of which put a key in the
\* output
C5_Witness ==
    /\ Extracted /\ op \in ChunkedOps
    /\ chunkSize = 1
    /\ Len(content.e) >= 2
    /\ \E n \in 1..Len(results) : Len(results[n].outputContent.e) >= 2

(***************************************************************************)
(* C6  Structural isomorphism across languages: the outputs of any two     *)
(* languages hold nested objects at exactly the same key paths, namely the *)
(* Branch paths of the input.                                              *)
(***************************************************************************)
C6_SameObjectPaths ==
    Extracted =>
        \A n, m \in 1..Len(results) :
            /\ ObjectPaths(results[n].outputContent)
                   = ObjectPaths(results[m].outputContent)
            /\ ObjectPaths(results[n].outputContent) = BranchPaths(content)

\* no value stored under a language key of a reached object is an object
NoObjectUnderLanguage(doc) ==
    \A r \in Reached(doc, <<>>) :
        IsObject(r.v) =>
            \A key \in KeysOf(r.v) \cap languageSet :
                ~IsObject(ValueOf(r.v, key))

(***************************************************************************)
(* C6 as amended: for every document in which no value stored under a      *)
(* language key is itself an object, the outputs of any two languages hold *)
(* nested objects at exactly the Branch paths of the input; every other    *)
(* key of an output is a Leaf of the input that has that language.         *)
(***************************************************************************)
C6_SameObjectPathsAmended ==
    (Extracted /\ NoObjectUnderLanguage(content)) =>
        \A n \in 1..Len(results) :
            /\ ObjectPaths(results[n].outputContent) = BranchPaths(content)
            /\ \A x \in AllEntries(results[n].outputContent, <<>>) :
                   ~IsObject(x.v) =>
                       \E r \in Reached(content, <<>>) :
                           /\ r.p = x.p
                           /\ IsLeafNode(r.v)
                           /\ results[n].lang \in KeysOf(r.v)

\* a Branch holding a Leaf of one language only: the other language's output
\* holds the Branch, empty
C6_Witness ==
    /\ Extracted /\ NoObjectUnderLanguage(content)
    /\ Len(results) = 2
    /\ \E r \in Reached(content, <<>>) :
           /\ Len(r.p) = 1 /\ IsBranchNode(r.v)
           /\ ValueAt(results[1].outputContent, r.p) # EmptyObj
           /\ ValueAt(results[2].outputContent, r.p) = EmptyObj

(***************************************************************************)
(* The pipeline of the optimized generator: run(), processFilesInParallel, *)
(* the inline and the worker path of a file, writeFilesInBatch.            *)
(***************************************************************************)
\* if (fileSizeKB < 100)
SmallFileKB == 100
\* const fileSizeKB = stats.size / 1024
BytesPerKB == 1024
\* const concurrency = this.useWorkers ? this.maxWorkers : 4
InlineConcurrency == 4

\* a slip: <= written for <
IsSmallInclusive(size) == size <= SmallFileKB * BytesPerKB

\* stats.size / 1024 < 100, for a size in bytes
IsSmall(size) == size < SmallFileKB * BytesPerKB

\* a slip: the whole list taken as one wave
ConcurrencyAll == Len(inputFiles) + 1

\* const concurrency = this.useWorkers ? this.maxWorkers : 4
Concurrency == IF useWorkers THEN maxWorkers ELSE InlineConcurrency

\* a slip: the filter left out
IsJsonFileAny(entry) == TRUE

\* file.endsWith('.json'): a name is [base, ext]
IsJsonFile(entry) == entry.name.ext = "json"

NoName == [base |-> 0, ext |-> ""]
NoPath == [lang |-> "", file |-> NoName]
NoError == [type |-> "none", file |-> NoName, path |-> NoPath]

\* a slip: the language directory left out of the path
OutputPathFlat(lang, name) == [lang |-> "", file |-> name]

\* path.join(this.outputDir, lang, inputFile), relative to outputDir
OutputPath(lang, name) == [lang |-> lang, file |-> name]

\* path.dirname(outputPath), relative to outputDir
Dirname(outputPath) == outputPath.lang

\* what JSON.parse gives for a well-formed file
DocOf(file) ==
    Obj(<<[k |-> "a",
           v |-> Obj(<<[k |-> "vi", v |-> Str("X")],
                       [k |-> "en",
                        v |-> Str(IF file.name.base = 1 THEN "Y" ELSE "Z")]>>)],
          [k |-> "g",
           v |-> Obj(<<[k |-> "a", v |-> Obj(<<[k |-> "vi", v |-> Str("X")]>>)]>>)]>>)

\* extractTranslationsChunked(obj, lang), from chunk offset from on, with the
\* result so far; its yields left aside
RECURSIVE ChunkLoop(_, _, _, _, _, _)
ChunkLoop(which, obj, lang, size, from, acc) ==
    IF from >= Len(obj.e) THEN acc
    ELSE ChunkLoop(which, obj, lang, size, from + size,
                   ObjectAssign(acc, ChunkResult(which, obj, from, size, lang)))

extractTranslationsChunked(which, obj, lang, size) ==
    ChunkLoop(which, obj, lang, size, 0, EmptyObj)

\* a slip: the results posted from inside the loop, after the first language
FileResultsOfFirst(which, file) ==
    [kind |-> "list",
     items |-> [n \in 1..1 |->
                  [kind |-> "result",
                   lang |-> languages[n],
                   outputPath |-> OutputPath(languages[n], file.name),
                   outputContent |->
                       extractTranslationsChunked(which, DocOf(file),
                                                  languages[n], chunkSize)]],
     err |-> NoError]

\* the results of a well-formed file: for (const lang of languages)
\* results.push({ lang, outputPath, outputContent })
FileResultsOf(which, file) ==
    [kind |-> "list",
     items |-> [n \in 1..Len(languages) |->
                  [kind |-> "result",
                   lang |-> languages[n],
                   outputPath |-> OutputPath(languages[n], file.name),
                   outputContent |->
                       extractTranslationsChunked(which, DocOf(file),
                                                  languages[n], chunkSize)]],
     err |-> NoError]

\* { error: error.message, stack: error.stack }, the message of a worker
\* whose try block threw
FailureMessage(file) ==
    [kind |-> "failure", items |-> <<>>,
     err |-> [type |-> "SyntaxError", file |-> file.name, path |-> NoPath]]

\* a rejection reason
Rejection(type, name) ==
    [kind |-> "error", items |-> <<>>,
     err |-> [type |-> type, file |-> name, path |-> NoPath]]

NoValue == [kind |-> "none", items |-> <<>>, err |-> NoError]

\* a failure message as an element of the results: it has no lang,
\* outputPath or outputContent
FailureItem(value) ==
    [kind |-> "failure", lang |-> "", outputPath |-> NoPath,
     outputContent |-> Undefined]

\* a slip: batchResults[0] taken for batchResults.flat()
FlatHead(values) ==
    IF values = <<>> THEN <<>>
    ELSE IF Head(values).kind = "list" THEN Head(values).items
    ELSE <<FailureItem(Head(values))>>

\* a slip: the values of the wave taken last to first
RECURSIVE FlatReversed(_)
FlatReversed(values) ==
    IF values = <<>> THEN <<>>
    ELSE FlatReversed(Tail(values)) \o
         (IF Head(values).kind = "list"
          THEN Head(values).items
          ELSE <<FailureItem(Head(values))>>)

\* batchResults.flat(): the lists are spliced in, anything else is kept as
\* one element
RECURSIVE Flat(_)
Flat(values) ==
    IF values = <<>> THEN <<>>
    ELSE (IF Head(values).kind = "list"
          THEN Head(values).items
          ELSE <<FailureItem(Head(values))>>) \o Flat(Tail(values))

\* a slip: the slice starts one element early
BatchOverlap == {f \in 1..Len(inputFiles) : wi <= f /\ f <= wi + Concurrency}

\* inputFiles.slice(i, i + concurrency), as indices of inputFiles
Batch == {f \in 1..Len(inputFiles) : wi < f /\ f <= wi + Concurrency}

Pending(f) == task[f] \in {"reading", "extracting", "worker"}

\* a slip: the catch block logs the error and run() goes on
RunFailsQuiet(err) ==
    /\ phase' = phase
    /\ error' = err
    /\ reports' = Append(reports, err)

\* the catch block of run(): console.error('Error:', error); throw error
RunFails(err) ==
    /\ phase' = "Failed"
    /\ error' = err
    /\ reports' = Append(reports, err)

(***************************************************************************)
(* The directories tried: at most MaxFiles entries; a .json entry is well  *)
(* formed or not and is one byte below the worker threshold or on it.      *)
(***************************************************************************)
EntryKinds ==
    {[ext |-> "json", size |-> sz, malformed |-> bad] :
         sz \in {SmallFileKB * BytesPerKB - 1, SmallFileKB * BytesPerKB},
         bad \in BOOLEAN}
    \cup {[ext |-> "txt", size |-> 1, malformed |-> TRUE]}

DirListings ==
    UNION { { [f \in 1..n |->
                 [name |-> [base |-> f, ext |-> kinds[f].ext],
                  size |-> kinds[f].size,
                  malformed |-> kinds[f].malformed]] :
              kinds \in [1..n -> EntryKinds] } : n \in 0..MaxFiles }

\* The language lists tried: the default, and a list that names a language
\* twice.
LanguageLists == {DefaultLanguages, <<"vi", "vi">>}

\* no extraction of Spec is under way
ExtractIdle ==
    /\ content = EmptyObj
    /\ op = "chunked"
    /\ chunkSize = 1
    /\ li = 1
    /\ i = 0
    /\ result = EmptyObj
    /\ yields = 0
    /\ steps = <<>>
    /\ heap = HeapIdle
    /\ results = <<>>
    /\ pc = "idle"

InitRun ==
    /\ ExtractIdle
    /\ languages \in LanguageLists
    /\ program \in {"run", "cli", "plugin"}
    /\ cli = CliIdle
    /\ inline = <<>>
    /\ plugin \in {[PluginIdle EXCEPT !.shouldRun = b] :
                      b \in (IF program = "plugin" THEN BOOLEAN ELSE {FALSE})}
    /\ inputDir \in {[exists |-> FALSE, entries |-> <<>>]}
                    \cup {[exists |-> TRUE, entries |-> es] : es \in DirListings}
    /\ useWorkers \in BOOLEAN
    /\ maxWorkers \in 1..MaxPool
    /\ phase = "Idle"
    /\ inputFiles = <<>>
    /\ wi = 0
    /\ task = <<>>
    /\ taskValue = <<>>
    /\ worker = <<>>
    /\ chan = <<>>
    /\ collected = <<>>
    /\ writing = "no"
    /\ fileResults = <<>>
    /\ writes = <<>>
    /\ dirs \in {{}, {languages[1]}}
    /\ written = {}
    /\ reports = <<>>
    /\ error = NoError

\* run() is called
StartRun ==
    /\ program = "run"
    /\ phase = "Idle"
    /\ phase' = "Discovering"
    /\ UNCHANGED <<inputDir, useWorkers, maxWorkers, inputFiles, wi, task,
                   taskValue, worker, chan, collected, writing, fileResults,
                   writes, dirs, written, reports, error>>
    /\ UNCHANGED <<xvars, cvars>>

\* fs.readdirSync(this.inputDir).filter(file => file.endsWith('.json'));
\* with no file the loop of processFilesInParallel has no turn
Discover ==
    /\ phase = "Discovering"
    /\ IF ~inputDir.exists
       THEN /\ RunFails([type |-> "ENOENT", file |-> NoName, path |-> NoPath])
            /\ UNCHANGED <<inputFiles, task, taskValue, worker, chan>>
       ELSE LET files == SelectSeq(inputDir.entries, IsJsonFile) IN
            /\ inputFiles' = files
            /\ task' = [f \in 1..Len(files) |-> "none"]
            /\ taskValue' = [f \in 1..Len(files) |-> NoValue]
            /\ worker' = [f \in 1..Len(files) |-> "none"]
            /\ chan' = [f \in 1..Len(files) |-> {}]
            /\ phase' = IF Len(files) = 0 THEN "Writing" ELSE "Dispatching"
            /\ UNCHANGED <<error, reports>>
    /\ UNCHANGED <<inputDir, useWorkers, maxWorkers, wi, collected, writing,
                   fileResults, writes, dirs, written>>
    /\ UNCHANGED <<xvars, cvars>>

\* batch.map(file => this.useWorkers ? this.processFileWithWorker(file)
\*                                   : this.processFileMainThread(file))
GoesToWorker(file) == useWorkers /\ ~IsSmall(file.size)

DispatchWave ==
    /\ phase = "Dispatching"
    /\ task' = [f \in 1..Len(inputFiles) |->
                  IF f \in Batch
                  THEN (IF GoesToWorker(inputFiles[f]) THEN "worker"
                        ELSE "reading")
                  ELSE task[f]]
    /\ worker' = [f \in 1..Len(inputFiles) |->
                    IF f \in Batch /\ GoesToWorker(inputFiles[f])
                    THEN "running" ELSE worker[f]]
    /\ phase' = "Collecting"
    /\ UNCHANGED <<inputDir, useWorkers, maxWorkers, inputFiles, wi,
                   taskValue, chan, collected, writing, fileResults, writes,
                   dirs, written, reports, error>>
    /\ UNCHANGED <<xvars, cvars>>

\* a promise of the wave awaited by Promise.all rejects: Promise.all rejects,
\* processFilesInParallel and run() with it
TaskRejects(f, reason) ==
    /\ task' = [task EXCEPT ![f] = "rejected"]
    /\ taskValue' = [taskValue EXCEPT ![f] = reason]
    /\ IF phase = "Collecting" /\ f \in Batch
       THEN RunFails(reason.err)
       ELSE UNCHANGED <<phase, error, reports>>

\* processFileMainThread: the file is read and parsed
InlineRead(f) ==
    /\ task[f] = "reading"
    /\ IF inputFiles[f].malformed
       THEN TaskRejects(f, Rejection("SyntaxError", inputFiles[f].name))
       ELSE /\ task' = [task EXCEPT ![f] = "extracting"]
            /\ UNCHANGED <<taskValue, phase, error, reports>>
    /\ UNCHANGED <<inputDir, useWorkers, maxWorkers, inputFiles, wi, worker,
                   chan, collected, writing, fileResults, writes, dirs,
                   written>>
    /\ UNCHANGED <<xvars, cvars>>

\* processFileMainThread: every language is extracted, return results
InlineExtract(f) ==
    /\ task[f] = "extracting"
    /\ task' = [task EXCEPT ![f] = "fulfilled"]
    /\ taskValue' = [taskValue EXCEPT
                        ![f] = FileResultsOf("chunked", inputFiles[f])]
    /\ UNCHANGED <<inputDir, useWorkers, maxWorkers, phase, inputFiles, wi,
                   worker, chan, collected, writing, fileResults, writes,
                   dirs, written, reports, error>>
    /\ UNCHANGED <<xvars, cvars>>

Event(ev, code, value) == [ev |-> ev, code |-> code, value |-> value]

\* worker.js, the whole of it: the results are posted and the thread ends
\* (exit code 0), or the catch block posts the failure message and calls
\* process.exit(1)
WorkerMain(f) ==
    /\ worker[f] = "running"
    /\ worker' = [worker EXCEPT ![f] = "ended"]
    /\ chan' = [chan EXCEPT ![f] =
                  IF inputFiles[f].malformed
                  THEN {Event("message", 0, FailureMessage(inputFiles[f])),
                        Event("exit", 1, NoValue)}
                  ELSE {Event("message", 0,
                              FileResultsOf("worker", inputFiles[f])),
                        Event("exit", 0, NoValue)}]
    /\ UNCHANGED <<inputDir, useWorkers, maxWorkers, phase, inputFiles, wi,
                   task, taskValue, collected, writing, fileResults, writes,
                   dirs, written, reports, error>>
    /\ UNCHANGED <<xvars, cvars>>

\* the worker thread dies before it posts anything: a non-zero exit, with
\* an 'error' event before it (an uncaught exception, a resource limit) or
\* without one (the thread is ended from outside its try block)
WorkerCrash(f) ==
    /\ worker[f] = "running"
    /\ worker' = [worker EXCEPT ![f] = "crashed"]
    /\ \E withError \in BOOLEAN :
        chan' = [chan EXCEPT ![f] =
                   {Event("exit", 1, NoValue)} \cup
                   (IF withError THEN {Event("error", 1, NoValue)} ELSE {})]
    /\ UNCHANGED <<inputDir, useWorkers, maxWorkers, phase, inputFiles, wi,
                   task, taskValue, collected, writing, fileResults, writes,
                   dirs, written, reports, error>>
    /\ UNCHANGED <<xvars, cvars>>

\* worker.on('message', resolve)
OnMessage(f) ==
    \E e \in chan[f] :
        /\ e.ev = "message"
        /\ chan' = [chan EXCEPT ![f] = @ \ {e}]
        /\ IF task[f] = "worker"
           THEN /\ task' = [task EXCEPT ![f] = "fulfilled"]
                /\ taskValue' = [taskValue EXCEPT ![f] = e.value]
           ELSE UNCHANGED <<task, taskValue>>
        /\ UNCHANGED <<inputDir, useWorkers, maxWorkers, phase, inputFiles,
                       wi, worker, collected, writing, fileResults, writes,
                       dirs, written, reports, error>>
        /\ UNCHANGED <<xvars, cvars>>

\* worker.on('error', reject)
OnError(f) ==
    \E e \in chan[f] :
        /\ e.ev = "error"
        /\ chan' = [chan EXCEPT ![f] = @ \ {e}]
        /\ IF task[f] = "worker"
           THEN TaskRejects(f, Rejection("WorkerError", inputFiles[f].name))
           ELSE UNCHANGED <<task, taskValue, phase, error, reports>>
        /\ UNCHANGED <<inputDir, useWorkers, maxWorkers, inputFiles, wi,
                       worker, collected, writing, fileResults, writes, dirs,
                       written>>
        /\ UNCHANGED <<xvars, cvars>>

\* a slip: the 'exit' handler does not look at the code
OnExitIgnored(f) ==
    \E e \in chan[f] :
        /\ e.ev = "exit"
        /\ chan' = [chan EXCEPT ![f] = @ \ {e}]
        /\ UNCHANGED <<task, taskValue, phase, error, reports>>
        /\ UNCHANGED <<inputDir, useWorkers, maxWorkers, inputFiles, wi,
                       worker, collected, writing, fileResults, writes, dirs,
                       written>>
        /\ UNCHANGED <<xvars, cvars>>

\* worker.on('exit', code => { if (code !== 0) reject(new Error(...)) })
OnExit(f) ==
    \E e \in chan[f] :
        /\ e.ev = "exit"
        /\ chan' = [chan EXCEPT ![f] = @ \ {e}]
        /\ IF e.code # 0 /\ task[f] = "worker"
           THEN TaskRejects(f, Rejection("WorkerExit", inputFiles[f].name))
           ELSE UNCHANGED <<task, taskValue, phase, error, reports>>
        /\ UNCHANGED <<inputDir, useWorkers, maxWorkers, inputFiles, wi,
                       worker, collected, writing, fileResults, writes, dirs,
                       written>>
        /\ UNCHANGED <<xvars, cvars>>

\* const batchResults = await Promise.all(batchPromises);
\* results.push(...batchResults.flat()); then the next turn of the loop, or
\* return results
CollectWave ==
    /\ phase = "Collecting"
    /\ \A f \in Batch : task[f] = "fulfilled"
    /\ collected' = collected \o
                    Flat([n \in 1..Cardinality(Batch) |-> taskValue[wi + n]])
    /\ wi' = wi + Concurrency
    /\ phase' = IF wi + Concurrency < Len(inputFiles)
                THEN "Dispatching" ELSE "Writing"
    /\ UNCHANGED <<inputDir, useWorkers, maxWorkers, inputFiles, task,
                   taskValue, worker, chan, writing, fileResults, writes,
                   dirs, written, reports, error>>
    /\ UNCHANGED <<xvars, cvars>>

\* a slip: the directories checked and never created
DirsBeforeMissing(k) == dirs

\* the directories that exist when the loop of writeFilesInBatch reaches its
\* k-th result
DirsBefore(k) ==
    dirs \cup {Dirname(collected[j].outputPath) : j \in 1..(k - 1)}

\* the loop of writeFilesInBatch can throw at its k-th result: path.dirname
\* of an undefined outputPath, or mkdirSync of a missing directory
CanThrowAt(k) ==
    \/ collected[k].kind # "result"
    \/ Dirname(collected[k].outputPath) \notin DirsBefore(k)

\* writeFilesInBatch(results) up to its await: the loop runs for every
\* result (k past the last) or throws at the k-th
WriteIssue ==
    /\ phase = "Writing" /\ writing = "no"
    /\ fileResults' = collected
    /\ \E k \in 1..(Len(collected) + 1) :
        /\ \A j \in 1..(k - 1) : collected[j].kind = "result"
        /\ k <= Len(collected) => CanThrowAt(k)
        /\ dirs' = DirsBefore(k)
        /\ writes' = [j \in 1..Len(collected) |->
                        IF j < k THEN "inflight" ELSE "unissued"]
        /\ IF k <= Len(collected)
           THEN /\ writing' = "rejected"
                /\ RunFails([type |-> IF collected[k].kind = "result"
                                      THEN "mkdir" ELSE "TypeError",
                             file |-> NoName,
                             path |-> collected[k].outputPath])
           ELSE /\ writing' = "awaiting"
                /\ UNCHANGED <<phase, error, reports>>
    /\ UNCHANGED <<inputDir, useWorkers, maxWorkers, inputFiles, wi, task,
                   taskValue, worker, chan, collected, written>>
    /\ UNCHANGED <<xvars, cvars>>

\* a write of fs.promises.writeFile succeeds
WriteDone(j) ==
    /\ writes[j] = "inflight"
    /\ writes' = [writes EXCEPT ![j] = "written"]
    /\ written' = {w \in written : w.outputPath # fileResults[j].outputPath}
                  \cup {[outputPath |-> fileResults[j].outputPath,
                         outputContent |-> fileResults[j].outputContent]}
    /\ UNCHANGED <<inputDir, useWorkers, maxWorkers, phase, inputFiles, wi,
                   task, taskValue, worker, chan, collected, writing,
                   fileResults, dirs, reports, error>>
    /\ UNCHANGED <<xvars, cvars>>

\* a write fails: Promise.all(writePromises) rejects if it is awaited and
\* has not rejected yet
WriteFail(j) ==
    /\ writes[j] = "inflight"
    /\ Cardinality({n \in 1..Len(writes) : writes[n] = "failed"}) < MaxWriteFaults
    /\ writes' = [writes EXCEPT ![j] = "failed"]
    /\ IF writing = "awaiting"
       THEN /\ writing' = "rejected"
            /\ RunFails([type |-> "write", file |-> NoName,
                         path |-> fileResults[j].outputPath])
       ELSE UNCHANGED <<writing, phase, error, reports>>
    /\ UNCHANGED <<inputDir, useWorkers, maxWorkers, inputFiles, wi, task,
                   taskValue, worker, chan, collected, fileResults, dirs,
                   written>>
    /\ UNCHANGED <<xvars, cvars>>

\* await Promise.all(writePromises) is over: run() returns { success: true }
BatchResolve ==
    /\ writing = "awaiting"
    /\ \A j \in 1..Len(writes) : writes[j] = "written"
    /\ writing' = "resolved"
    /\ phase' = "Done"
    /\ UNCHANGED <<inputDir, useWorkers, maxWorkers, inputFiles, wi, task,
                   taskValue, worker, chan, collected, fileResults, writes,
                   dirs, written, reports, error>>
    /\ UNCHANGED <<xvars, cvars>>

(***************************************************************************)
(* The command line tool: generateTranslations(config), called by the      *)
(* script after loadConfig, inside try { ... } catch { process.exit(1) }.  *)
(***************************************************************************)
\* a slip: process.exit() called without the code
CliExitZero(code, failed) ==
    [cli EXCEPT !.pc = "exited", !.exitCode = 0,
                !.errors = IF failed THEN @ + 1 ELSE @]

\* catch (error) { console.error(...); process.exit(1) }, and the
\* process.exit(1) of generateTranslations itself
CliExit(code, failed) ==
    [cli EXCEPT !.pc = "exited", !.exitCode = code,
                !.errors = IF failed THEN @ + 1 ELSE @]

\* generateTranslations(config) is called: the four lines of console.log
CliStart ==
    /\ program = "cli"
    /\ cli.pc = "idle"
    /\ cli' = [cli EXCEPT !.pc = "check"]
    /\ UNCHANGED <<languages, program, inline, plugin>>
    /\ UNCHANGED <<xvars, rvars>>

\* if (!fs.existsSync(inputDir)) { console.error(...); process.exit(1); }
CliCheck ==
    /\ cli.pc = "check"
    /\ cli' = IF inputDir.exists
              THEN [cli EXCEPT !.pc = "list"]
              ELSE CliExit(1, TRUE)
    /\ UNCHANGED <<languages, program, inline, plugin>>
    /\ UNCHANGED <<xvars, rvars>>

\* fs.readdirSync(inputDir).filter(...); with no file: console.warn, return,
\* and the process ends with nothing left to do
CliList ==
    /\ cli.pc = "list"
    /\ LET files == SelectSeq(inputDir.entries, IsJsonFile) IN
       cli' = IF Len(files) = 0
              THEN [cli EXCEPT !.pc = "exited", !.exitCode = 0,
                               !.warnings = @ + 1]
              ELSE [cli EXCEPT !.pc = "file", !.inputFiles = files, !.f = 1]
    /\ UNCHANGED <<languages, program, inline, plugin>>
    /\ UNCHANGED <<xvars, rvars>>

\* inputFiles.forEach: readFileSync and JSON.parse of the next file; a
\* SyntaxError leaves generateTranslations and is caught by the script
CliReadFile ==
    /\ cli.pc = "file" /\ cli.f <= Len(cli.inputFiles)
    /\ cli' = IF cli.inputFiles[cli.f].malformed
              THEN CliExit(1, TRUE)
              ELSE [cli EXCEPT !.pc = "lang", !.l = 1,
                               !.content = DocOf(cli.inputFiles[cli.f])]
    /\ UNCHANGED <<languages, program, inline, plugin>>
    /\ UNCHANGED <<xvars, rvars>>

\* languages.forEach: extract, create the directory when missing, write;
\* mkdirSync or writeFileSync may throw
CliWriteLang ==
    /\ cli.pc = "lang" /\ cli.l <= Len(languages)
    /\ LET lang == languages[cli.l]
           outputContent == cliExtractTranslations(cli.content, languages, lang)
           outputPath == OutputPath(lang, cli.inputFiles[cli.f].name)
       IN \E outcome \in {"ok", "mkdir", "write"} :
           /\ outcome = "mkdir" => Dirname(outputPath) \notin dirs
           /\ dirs' = IF outcome = "mkdir" THEN dirs
                      ELSE dirs \cup {Dirname(outputPath)}
           /\ IF outcome = "ok"
              THEN /\ written' = {w \in written : w.outputPath # outputPath}
                                 \cup {[outputPath |-> outputPath,
                                        outputContent |-> outputContent]}
                   /\ cli' = [cli EXCEPT !.l = @ + 1,
                                         !.totalGenerated = @ + 1]
              ELSE /\ written' = written
                   /\ cli' = CliExit(1, TRUE)
    /\ UNCHANGED <<languages, program, inline, plugin>>
    /\ UNCHANGED <<inputDir, useWorkers, maxWorkers, phase, inputFiles, wi,
                   task, taskValue, worker, chan, collected, writing,
                   fileResults, writes, reports, error>>
    /\ UNCHANGED xvars

\* the languages of a file are done: the next turn of inputFiles.forEach
CliNextFile ==
    /\ cli.pc = "lang" /\ cli.l > Len(languages)
    /\ cli' = [cli EXCEPT !.pc = "file", !.f = @ + 1, !.content = EmptyObj]
    /\ UNCHANGED <<languages, program, inline, plugin>>
    /\ UNCHANGED <<xvars, rvars>>

\* console.log(`Success! ...`): generateTranslations returns and the
\* process ends
CliSuccess ==
    /\ cli.pc = "file" /\ cli.f > Len(cli.inputFiles)
    /\ cli' = [cli EXCEPT !.pc = "exited", !.exitCode = 0]
    /\ UNCHANGED <<languages, program, inline, plugin>>
    /\ UNCHANGED <<xvars, rvars>>

(***************************************************************************)
(* The script of the command line tool: the arguments, help and version,   *)
(* loadConfig.  An argument is the sequence of its characters; flags is    *)
(* the object the script fills, a function from keys to values.            *)
(***************************************************************************)
\* arg.startsWith('--')
StartsWith(s, prefix) ==
    Len(s) >= Len(prefix) /\ SubSeq(s, 1, Len(prefix)) = prefix

\* arg.slice(2)
SliceFrom(s, n) == SubSeq(s, n + 1, Len(s))

\* s.split('='): the pieces of s between the separators
RECURSIVE SplitFrom(_, _, _, _)
SplitFrom(s, sep, n, piece) ==
    IF n > Len(s) THEN <<piece>>
    ELSE IF s[n] = sep THEN <<piece>> \o SplitFrom(s, sep, n + 1, <<>>)
    ELSE SplitFrom(s, sep, n + 1, Append(piece, s[n]))

Split(s, sep) == SplitFrom(s, sep, 1, <<>>)

\* the value true, and a string, as values of a flag
FlagTrue == [bool |-> TRUE, text |-> <<>>]
FlagText(text) == [bool |-> FALSE, text |-> text]

\* value || true, value the second piece of the split or undefined
ValueOrTrue(pieces) ==
    IF Len(pieces) >= 2 /\ pieces[2] # <<>> THEN FlagText(pieces[2])
    ELSE FlagTrue

\* a slip: the key is the whole text after the dashes, '=value' included
ParseArgWhole(flags, arg) ==
    IF StartsWith(arg, <<"-", "-">>)
    THEN [k \in DOMAIN flags \cup {SliceFrom(arg, 2)} |->
             IF k = SliceFrom(arg, 2) THEN FlagTrue ELSE flags[k]]
    ELSE flags

\* if (arg.startsWith('--')) { const [key, value] = arg.slice(2).split('=');
\* flags[key] = value || true; }
ParseArg(flags, arg) ==
    IF StartsWith(arg, <<"-", "-">>)
    THEN LET pieces == Split(SliceFrom(arg, 2), "=")
             key == pieces[1]
         IN [k \in DOMAIN flags \cup {key} |->
                IF k = key THEN ValueOrTrue(pieces) ELSE flags[k]]
    ELSE flags

\* args.forEach(...) over process.argv.slice(2)
RECURSIVE ParseArgs(_, _, _)
ParseArgs(flags, args, n) ==
    IF n > Len(args) THEN flags
    ELSE ParseArgs(ParseArg(flags, args[n]), args, n + 1)

\* flags.key read in a condition: undefined is falsy, true and a non-empty
\* string are truthy
FlagSet(flags, key) ==
    key \in DOMAIN flags /\ (flags[key].bool \/ flags[key].text # <<>>)

\* the script runs: the flags, then help, then version, each of the two
\* ending the process with process.exit(0); otherwise the async function
\* starts with loadConfig
CliScript ==
    /\ program = "cli"
    /\ cli.pc = "script"
    /\ LET flags == ParseArgs(<<>>, cli.argv, 1) IN
       cli' = IF FlagSet(flags, <<"h", "e", "l", "p">>) \/ FlagSet(flags, <<"h">>)
              THEN [CliExit(0, FALSE) EXCEPT !.flags = flags]
              ELSE IF FlagSet(flags, <<"v", "e", "r", "s", "i", "o", "n">>)
                      \/ FlagSet(flags, <<"v">>)
              THEN [CliExit(0, FALSE) EXCEPT !.flags = flags]
              ELSE [cli EXCEPT !.pc = "loadConfig", !.flags = flags]
    /\ UNCHANGED <<languages, program, inline, plugin>>
    /\ UNCHANGED <<xvars, rvars>>

\* what loadConfig does in the working directory: "config" when it returns
\* a configuration, "throw" when it throws, "exit" when it finds no
\* configuration and ends the process
LoadConfig(cwd) ==
    IF cwd.config # "absent"
    THEN IF cwd.config \in {"esm", "cjs"} THEN "config" ELSE "throw"
    ELSE IF cwd.pkg = "malformed" THEN "throw"
    ELSE IF cwd.pkg = "field" THEN "config"
    ELSE "exit"

\* const config = await loadConfig(): the configuration, or the three
\* console.error and process.exit(1) of loadConfig, or the catch of the
\* script
CliLoadConfig ==
    /\ cli.pc = "loadConfig"
    /\ cli' = CASE LoadConfig(cli.cwd) = "config" -> [cli EXCEPT !.pc = "idle"]
                [] LoadConfig(cli.cwd) = "throw" -> CliExit(1, TRUE)
                [] OTHER -> [CliExit(1, FALSE) EXCEPT !.errors = @ + 3]
    /\ UNCHANGED <<languages, program, inline, plugin>>
    /\ UNCHANGED <<xvars, rvars>>

(***************************************************************************)
(* The webpack plugins: apply(compiler) of i18nGenerator and of            *)
(* i18nGeneratorOptimized, and the function they tap on beforeCompile.     *)
(* The compiler calls a tapped function once for the compilation; the      *)
(* callback it passes goes on with the compilation and may throw what a    *)
(* later stage of the build throws.                                        *)
(***************************************************************************)
\* callback(): no argument
NoArgument == [type |-> "undefined", file |-> NoName, path |-> NoPath]

\* an error thrown by the compilation that callback() went on with
BuildError == [type |-> "build", file |-> NoName, path |-> NoPath]

\* catch (error) { console.error(...); callback(error); }
PluginCatch(err) ==
    [plugin EXCEPT !.pc = "ended", !.errors = @ + 1,
                   !.calls = Append(@, err)]

\* what a step of the plugin's own loop leaves alone
PluginFrame ==
    /\ UNCHANGED <<languages, program, cli, inline>>
    /\ UNCHANGED <<xvars, rvars>>

\* i18nGenerator.apply(compiler): if (!this.shouldRun) return; otherwise
\* compiler.hooks.beforeCompile.tapAsync('i18nGenerator', ...)
PluginApply ==
    /\ program = "plugin"
    /\ plugin.pc = "idle"
    /\ plugin' = IF ~plugin.shouldRun
                 THEN [plugin EXCEPT !.pc = "returned"]
                 ELSE [plugin EXCEPT !.pc = "tapped",
                                     !.hooks = Append(@, "beforeCompile")]
    /\ PluginFrame

\* the compiler calls the tapped function: readdirSync(inputDir).filter(...)
\* which throws when the directory is missing
PluginBeforeCompile ==
    /\ program = "plugin"
    /\ plugin.pc = "tapped"
    /\ plugin' = IF ~inputDir.exists
                 THEN PluginCatch([type |-> "ENOENT", file |-> NoName,
                                   path |-> NoPath])
                 ELSE [plugin EXCEPT
                           !.pc = "file", !.f = 1,
                           !.inputFiles = SelectSeq(inputDir.entries,
                                                    IsJsonFile)]
    /\ PluginFrame

\* inputFiles.forEach: readFileSync and JSON.parse of the next file
PluginReadFile ==
    /\ plugin.pc = "file" /\ plugin.f <= Len(plugin.inputFiles)
    /\ plugin' = IF plugin.inputFiles[plugin.f].malformed
                 THEN PluginCatch([type |-> "SyntaxError",
                                   file |-> plugin.inputFiles[plugin.f].name,
                                   path |-> NoPath])
                 ELSE [plugin EXCEPT
                           !.pc = "lang", !.l = 1,
                           !.content = DocOf(plugin.inputFiles[plugin.f])]
    /\ PluginFrame

\* this.languages.forEach: extract, create the directory when missing,
\* write; mkdirSync or writeFileSync may throw
PluginWriteLang ==
    /\ plugin.pc = "lang" /\ plugin.l <= Len(languages)
    /\ LET lang == languages[plugin.l]
           outputContent == extractTranslations(plugin.content, lang)
           outputPath == OutputPath(lang, plugin.inputFiles[plugin.f].name)
       IN \E outcome \in {"ok", "mkdir", "write"} :
           /\ outcome = "mkdir" => Dirname(outputPath) \notin dirs
           /\ dirs' = IF outcome = "mkdir" THEN dirs
                      ELSE dirs \cup {Dirname(outputPath)}
           /\ IF outcome = "ok"
              THEN /\ written' = {w \in written : w.outputPath # outputPath}
                                 \cup {[outputPath |-> outputPath,
                                        outputContent |-> outputContent]}
                   /\ plugin' = [plugin EXCEPT !.l = @ + 1]
              ELSE /\ written' = written
                   /\ plugin' = PluginCatch([type |-> outcome,
                                             file |-> NoName,
                                             path |-> outputPath])
    /\ UNCHANGED <<languages, program, cli, inline>>
    /\ UNCHANGED <<inputDir, useWorkers, maxWorkers, phase, inputFiles, wi,
                   task, taskValue, worker, chan, collected, writing,
                   fileResults, writes, reports, error>>
    /\ UNCHANGED xvars

\* the languages of a file are done: the next turn of inputFiles.forEach
PluginNextFile ==
    /\ plugin.pc = "lang" /\ plugin.l > Len(languages)
    /\ plugin' = [plugin EXCEPT !.pc = "file", !.f = @ + 1,
                                !.content = EmptyObj]
    /\ PluginFrame

\* callback(), the last statement of the try block: it returns, or it throws
\* and the catch block calls callback(error)
PluginCallback ==
    /\ plugin.pc = "file" /\ plugin.f > Len(plugin.inputFiles)
    /\ \E thrown \in BOOLEAN :
        plugin' = IF thrown
                  THEN [plugin EXCEPT
                            !.pc = "ended", !.errors = @ + 1,
                            !.calls = @ \o <<NoArgument, BuildError>>]
                  ELSE [plugin EXCEPT !.pc = "ended",
                                      !.calls = Append(@, NoArgument)]
    /\ PluginFrame

\* i18nGeneratorOptimized.apply(compiler)
OptimizedApply ==
    /\ program = "apply"
    /\ plugin.pc = "idle"
    /\ plugin' = IF ~plugin.shouldRun
                 THEN [plugin EXCEPT !.pc = "returned"]
                 ELSE [plugin EXCEPT !.pc = "tapped",
                                     !.hooks = Append(@, "beforeCompile")]
    /\ PluginFrame

\* the compiler calls the tapped function, whose try block is the body of
\* run(): readdirSync, processFilesInParallel, writeFilesInBatch
OptimizedBeforeCompile ==
    /\ program = "apply"
    /\ plugin.pc = "tapped"
    /\ phase = "Idle"
    /\ plugin' = [plugin EXCEPT !.pc = "running"]
    /\ phase' = "Discovering"
    /\ UNCHANGED <<inputDir, useWorkers, maxWorkers, inputFiles, wi, task,
                   taskValue, worker, chan, collected, writing, fileResults,
                   writes, dirs, written, reports, error>>
    /\ UNCHANGED <<languages, program, cli, inline>>
    /\ UNCHANGED xvars

\* the end of the tapped function: callback() after the two console.log, or
\* callback(error) in the catch block, also when it was callback() that threw
OptimizedCallback ==
    /\ program = "apply"
    /\ plugin.pc = "running"
    /\ phase \in {"Done", "Failed"}
    /\ IF phase = "Failed"
       THEN plugin' = [plugin EXCEPT !.pc = "ended",
                                     !.calls = Append(@, error)]
       ELSE \E thrown \in BOOLEAN :
               plugin' = IF thrown
                         THEN [plugin EXCEPT
                                   !.pc = "ended", !.errors = @ + 1,
                                   !.calls = @ \o <<NoArgument, BuildError>>]
                         ELSE [plugin EXCEPT !.pc = "ended",
                                             !.calls = Append(@, NoArgument)]
    /\ PluginFrame

NextRun ==
    \/ StartRun
    \/ Discover
    \/ DispatchWave
    \/ \E f \in 1..Len(inputFiles) : InlineRead(f)
    \/ \E f \in 1..Len(inputFiles) : InlineExtract(f)
    \/ \E f \in 1..Len(inputFiles) : WorkerMain(f)
    \/ \E f \in 1..Len(inputFiles) : WorkerCrash(f)
    \/ \E f \in 1..Len(inputFiles) : OnMessage(f)
    \/ \E f \in 1..Len(inputFiles) : OnError(f)
    \/ \E f \in 1..Len(inputFiles) : OnExit(f)
    \/ CollectWave
    \/ WriteIssue
    \/ \E j \in 1..Len(writes) : WriteDone(j)
    \/ \E j \in 1..Len(writes) : WriteFail(j)
    \/ BatchResolve
    \/ CliStart
    \/ CliCheck
    \/ CliList
    \/ CliReadFile
    \/ CliWriteLang
    \/ CliNextFile
    \/ CliSuccess
    \/ PluginApply
    \/ PluginBeforeCompile
    \/ PluginReadFile
    \/ PluginWriteLang
    \/ PluginNextFile
    \/ PluginCallback

SpecRun == InitRun /\ [][NextRun]_vars

\* a build with one of the two plugins in its configuration: npm sets
\* npm_lifecycle_event to the name of the script that runs, 'i18n-generator'
\* or another
InitPlugin ==
    /\ ExtractIdle
    /\ languages = DefaultLanguages
    /\ program \in {"plugin", "apply"}
    /\ cli = CliIdle
    /\ inline = <<>>
    /\ plugin \in {[PluginIdle EXCEPT !.shouldRun = b] : b \in BOOLEAN}
    /\ inputDir \in {[exists |-> FALSE, entries |-> <<>>]}
                    \cup {[exists |-> TRUE, entries |-> es] : es \in DirListings}
    /\ useWorkers \in BOOLEAN
    /\ maxWorkers \in 1..MaxPool
    /\ phase = "Idle"
    /\ inputFiles = <<>>
    /\ wi = 0
    /\ task = <<>>
    /\ taskValue = <<>>
    /\ worker = <<>>
    /\ chan = <<>>
    /\ collected = <<>>
    /\ writing = "no"
    /\ fileResults = <<>>
    /\ writes = <<>>
    /\ dirs \in {{}, {languages[1]}}
    /\ written = {}
    /\ reports = <<>>
    /\ error = NoError

NextPlugin ==
    \/ PluginApply
    \/ PluginBeforeCompile
    \/ PluginReadFile
    \/ PluginWriteLang
    \/ PluginNextFile
    \/ PluginCallback
    \/ OptimizedApply
    \/ OptimizedBeforeCompile
    \/ Discover
    \/ DispatchWave
    \/ \E f \in 1..Len(inputFiles) : InlineRead(f)
    \/ \E f \in 1..Len(inputFiles) : InlineExtract(f)
    \/ \E f \in 1..Len(inputFiles) : WorkerMain(f)
    \/ \E f \in 1..Len(inputFiles) : WorkerCrash(f)
    \/ \E f \in 1..Len(inputFiles) : OnMessage(f)
    \/ \E f \in 1..Len(inputFiles) : OnError(f)
    \/ \E f \in 1..Len(inputFiles) : OnExit(f)
    \/ CollectWave
    \/ WriteIssue
    \/ \E j \in 1..Len(writes) : WriteDone(j)
    \/ \E j \in 1..Len(writes) : WriteFail(j)
    \/ BatchResolve
    \/ OptimizedCallback

SpecPlugin == InitPlugin /\ [][NextPlugin]_vars

(***************************************************************************)
(* The command line tool from the start of its script: the arguments of    *)
(* the command and the files of the working directory are what the user    *)
(* has.                                                                    *)
(***************************************************************************)
\* The command lines tried: none, help and version in their long and short
\* spellings, with a value, together, an argument with one dash, an
\* argument that is no flag, and a flag the script does not read.
ArgLists ==
    { <<>>,
      << <<"-", "-", "h", "e", "l", "p">> >>,
      << <<"-", "-", "h">> >>,
      << <<"-", "-", "h", "e", "l", "p", "=", "n", "o">> >>,
      << <<"-", "-", "v", "e", "r", "s", "i", "o", "n">> >>,
      << <<"-", "-", "v">> >>,
      << <<"-", "-", "v", "e", "r", "s", "i", "o", "n">>,
         <<"-", "-", "h", "e", "l", "p">> >>,
      << <<"-", "h">> >>,
      << <<"h", "e", "l", "p">> >>,
      << <<"-", "-", "w", "a", "t", "c", "h">> >> }

\* The working directories tried: i18n.config.js absent, an ES module, a
\* CommonJS module, or a file neither import nor require loads;
\* package.json absent, not JSON, without or with the field i18nGenerator.
WorkingDirs ==
    {[config |-> c, pkg |-> "absent"] : c \in {"esm", "cjs", "broken"}}
    \cup {[config |-> "absent", pkg |-> k] :
             k \in {"absent", "malformed", "plain", "field"}}

InitCli ==
    /\ ExtractIdle
    /\ languages \in LanguageLists
    /\ program = "cli"
    /\ cli \in {[CliIdle EXCEPT !.pc = "script", !.argv = a, !.cwd = d] :
                   a \in ArgLists, d \in WorkingDirs}
    /\ inline = <<>>
    /\ plugin = PluginIdle
    /\ inputDir \in {[exists |-> FALSE, entries |-> <<>>]}
                    \cup {[exists |-> TRUE, entries |-> es] : es \in DirListings}
    /\ useWorkers = TRUE
    /\ maxWorkers = 1
    /\ phase = "Idle"
    /\ inputFiles = <<>>
    /\ wi = 0
    /\ task = <<>>
    /\ taskValue = <<>>
    /\ worker = <<>>
    /\ chan = <<>>
    /\ collected = <<>>
    /\ writing = "no"
    /\ fileResults = <<>>
    /\ writes = <<>>
    /\ dirs \in {{}, {languages[1]}}
    /\ written = {}
    /\ reports = <<>>
    /\ error = NoError

NextCli ==
    \/ CliScript
    \/ CliLoadConfig
    \/ CliStart
    \/ CliCheck
    \/ CliList
    \/ CliReadFile
    \/ CliWriteLang
    \/ CliNextFile
    \/ CliSuccess

SpecCli == InitCli /\ [][NextCli]_vars

(***************************************************************************)
(* The waves of processFilesInParallel on their own: run() over longer     *)
(* directories of well-formed .json files, small or large, with the        *)
(* default languages; a worker may still crash, no write is refused.       *)
(***************************************************************************)
WaveListings ==
    UNION { { [f \in 1..n |->
                 [name |-> [base |-> f, ext |-> "json"],
                  size |-> sizes[f],
                  malformed |-> FALSE]] :
              sizes \in [1..n -> {SmallFileKB * BytesPerKB - 1,
                                  SmallFileKB * BytesPerKB}] } :
            n \in 0..MaxWaveFiles }

InitWaves ==
    /\ ExtractIdle
    /\ languages = DefaultLanguages
    /\ program = "run"
    /\ cli = CliIdle
    /\ inline = <<>>
    /\ plugin = PluginIdle
    /\ inputDir \in {[exists |-> TRUE, entries |-> es] : es \in WaveListings}
    /\ useWorkers \in BOOLEAN
    /\ maxWorkers \in 1..MaxPool
    /\ phase = "Idle"
    /\ inputFiles = <<>>
    /\ wi = 0
    /\ task = <<>>
    /\ taskValue = <<>>
    /\ worker = <<>>
    /\ chan = <<>>
    /\ collected = <<>>
    /\ writing = "no"
    /\ fileResults = <<>>
    /\ writes = <<>>
    /\ dirs = {}
    /\ written = {}
    /\ reports = <<>>
    /\ error = NoError

NextWaves ==
    \/ StartRun
    \/ Discover
    \/ DispatchWave
    \/ \E f \in 1..Len(inputFiles) : InlineRead(f)
    \/ \E f \in 1..Len(inputFiles) : InlineExtract(f)
    \/ \E f \in 1..Len(inputFiles) : WorkerMain(f)
    \/ \E f \in 1..Len(inputFiles) : WorkerCrash(f)
    \/ \E f \in 1..Len(inputFiles) : OnMessage(f)
    \/ \E f \in 1..Len(inputFiles) : OnError(f)
    \/ \E f \in 1..Len(inputFiles) : OnExit(f)
    \/ CollectWave
    \/ WriteIssue
    \/ \E j \in 1..Len(writes) : WriteDone(j)
    \/ BatchResolve

SpecWaves == InitWaves /\ [][NextWaves]_vars

(***************************************************************************)
(* processFileMainThread turn by turn: the files of a wave that are        *)
(* processed on the main thread run as interleaved async calls, each       *)
(* giving way at the awaits of its chunk loop.                             *)
(***************************************************************************)
\* const results = []; the loop over the languages is about to begin
InlineStart ==
    [li |-> 1, i |-> 0, result |-> EmptyObj, results |-> <<>>, pc |-> "lang"]

\* where the processFileMainThread of file f is
InlineAt(f) == IF f \in DOMAIN inline THEN inline[f] ELSE InlineStart

\* the same for every file but f, which is now at pos
InlineWith(f, pos) ==
    [g \in (DOMAIN inline) \cup {f} |-> IF g = f THEN pos ELSE inline[g]]

\* what a step of one file's extraction leaves alone
InlineFrame ==
    /\ UNCHANGED rvars
    /\ UNCHANGED <<xvars, languages, program, cli, plugin>>

\* the call of extractTranslationsChunked(content, lang): result = {}, i = 0
InlineBegin(f) ==
    /\ task[f] = "extracting"
    /\ InlineAt(f).pc = "lang" /\ InlineAt(f).li <= Len(languages)
    /\ inline' = InlineWith(f, [InlineAt(f) EXCEPT !.result = EmptyObj,
                                                   !.i = 0, !.pc = "chunk"])
    /\ InlineFrame

\* a slip: result kept in a field of the generator, which the calls under
\* way share
InlineChunkShared(f) ==
    /\ task[f] = "extracting"
    /\ InlineAt(f).pc = "chunk"
    /\ InlineAt(f).i < Len(DocOf(inputFiles[f]).e)
    /\ LET pos == InlineAt(f)
           doc == DocOf(inputFiles[f])
           shared == ObjectAssign(pos.result,
                         ChunkResult("chunked", doc, pos.i, chunkSize,
                                     languages[pos.li]))
       IN  inline' = [g \in (DOMAIN inline) \cup {f} |->
                        IF g = f
                        THEN [pos EXCEPT
                                  !.result = shared,
                                  !.pc = IF pos.i + chunkSize < Len(doc.e)
                                         THEN "yield" ELSE "chunk",
                                  !.i = IF pos.i + chunkSize < Len(doc.e)
                                        THEN pos.i ELSE pos.i + chunkSize]
                        ELSE [inline[g] EXCEPT !.result = shared]]
    /\ InlineFrame

\* one turn of the for loop of extractTranslationsChunked, up to its await
\* or to the next turn
InlineChunk(f) ==
    /\ task[f] = "extracting"
    /\ InlineAt(f).pc = "chunk"
    /\ InlineAt(f).i < Len(DocOf(inputFiles[f]).e)
    /\ LET pos == InlineAt(f)
           doc == DocOf(inputFiles[f])
       IN  inline' = InlineWith(f,
               [pos EXCEPT
                    !.result = ObjectAssign(pos.result,
                                   ChunkResult("chunked", doc, pos.i,
                                               chunkSize, languages[pos.li])),
                    !.pc = IF pos.i + chunkSize < Len(doc.e)
                           THEN "yield" ELSE "chunk",
                    !.i = IF pos.i + chunkSize < Len(doc.e)
                          THEN pos.i ELSE pos.i + chunkSize])
    /\ InlineFrame

\* a slip: the loop goes on with the same i
InlineResumeSameChunk(f) ==
    /\ task[f] = "extracting"
    /\ InlineAt(f).pc = "yield"
    /\ inline' = InlineWith(f, [InlineAt(f) EXCEPT !.pc = "chunk"])
    /\ InlineFrame

\* setImmediate fires: the loop goes on with i += chunkSize
InlineResume(f) ==
    /\ task[f] = "extracting"
    /\ InlineAt(f).pc = "yield"
    /\ inline' = InlineWith(f, [InlineAt(f) EXCEPT !.i = @ + chunkSize,
                                                   !.pc = "chunk"])
    /\ InlineFrame

\* return result; results.push({ lang, outputPath, outputContent })
InlineReturn(f) ==
    /\ task[f] = "extracting"
    /\ InlineAt(f).pc = "chunk"
    /\ InlineAt(f).i >= Len(DocOf(inputFiles[f]).e)
    /\ LET pos == InlineAt(f) IN
       inline' = InlineWith(f,
           [pos EXCEPT
                !.results = Append(@,
                    [kind |-> "result",
                     lang |-> languages[pos.li],
                     outputPath |-> OutputPath(languages[pos.li],
                                               inputFiles[f].name),
                     outputContent |-> pos.result]),
                !.li = @ + 1,
                !.pc = "lang"])
    /\ InlineFrame

\* the loop over the languages is over: return results
InlineDone(f) ==
    /\ task[f] = "extracting"
    /\ InlineAt(f).pc = "lang" /\ InlineAt(f).li > Len(languages)
    /\ task' = [task EXCEPT ![f] = "fulfilled"]
    /\ taskValue' = [taskValue EXCEPT
                        ![f] = [kind |-> "list",
                                items |-> InlineAt(f).results,
                                err |-> NoError]]
    /\ inline' = InlineWith(f, [InlineAt(f) EXCEPT !.pc = "returned"])
    /\ UNCHANGED <<inputDir, useWorkers, maxWorkers, phase, inputFiles, wi,
                   worker, chan, collected, writing, fileResults, writes,
                   dirs, written, reports, error>>
    /\ UNCHANGED <<xvars, languages, program, cli, plugin>>

\* the directories tried: up to MaxFiles well-formed .json files
InlineListings ==
    { [f \in 1..n |-> [name |-> [base |-> f, ext |-> "json"],
                       size |-> BytesPerKB,
                       malformed |-> FALSE]] : n \in 0..MaxFiles }

InitInline ==
    /\ content = EmptyObj
    /\ op = "chunked"
    /\ chunkSize \in 1..MaxChunk
    /\ li = 1
    /\ i = 0
    /\ result = EmptyObj
    /\ yields = 0
    /\ steps = <<>>
    /\ heap = HeapIdle
    /\ results = <<>>
    /\ pc = "idle"
    /\ languages = DefaultLanguages
    /\ program = "run"
    /\ cli = CliIdle
    /\ inline = <<>>
    /\ plugin = PluginIdle
    /\ inputDir \in {[exists |-> TRUE, entries |-> es] : es \in InlineListings}
    /\ useWorkers = FALSE
    /\ maxWorkers \in 1..MaxPool
    /\ phase = "Idle"
    /\ inputFiles = <<>>
    /\ wi = 0
    /\ task = <<>>
    /\ taskValue = <<>>
    /\ worker = <<>>
    /\ chan = <<>>
    /\ collected = <<>>
    /\ writing = "no"
    /\ fileResults = <<>>
    /\ writes = <<>>
    /\ dirs = {}
    /\ written = {}
    /\ reports = <<>>
    /\ error = NoError

NextInline ==
    \/ StartRun
    \/ Discover
    \/ DispatchWave
    \/ \E f \in 1..Len(inputFiles) : InlineRead(f)
    \/ \E f \in 1..Len(inputFiles) : InlineBegin(f)
    \/ \E f \in 1..Len(inputFiles) : InlineChunk(f)
    \/ \E f \in 1..Len(inputFiles) : InlineResume(f)
    \/ \E f \in 1..Len(inputFiles) : InlineReturn(f)
    \/ \E f \in 1..Len(inputFiles) : InlineDone(f)
    \/ CollectWave
    \/ WriteIssue
    \/ \E j \in 1..Len(writes) : WriteDone(j)
    \/ BatchResolve

SpecInline == InitInline /\ [][NextInline]_vars

(***************************************************************************)
(* run() to its end, with the chunk loops of the inline tasks turn by      *)
(* turn.  What is ready to run does run: the event loop runs a             *)
(* continuation whose promise has settled and a handler whose event has    *)
(* come; a task that was dispatched and a write that was issued settle     *)
(* some day, well or badly.                                                *)
(***************************************************************************)
InitLive ==
    /\ content = EmptyObj
    /\ op = "chunked"
    /\ chunkSize \in 1..MaxChunk
    /\ li = 1
    /\ i = 0
    /\ result = EmptyObj
    /\ yields = 0
    /\ steps = <<>>
    /\ heap = HeapIdle
    /\ results = <<>>
    /\ pc = "idle"
    /\ languages = DefaultLanguages
    /\ program = "run"
    /\ cli = CliIdle
    /\ inline = <<>>
    /\ plugin = PluginIdle
    /\ inputDir \in {[exists |-> FALSE, entries |-> <<>>]}
                    \cup {[exists |-> TRUE, entries |-> es] : es \in DirListings}
    /\ useWorkers \in BOOLEAN
    /\ maxWorkers \in 1..MaxPool
    /\ phase = "Idle"
    /\ inputFiles = <<>>
    /\ wi = 0
    /\ task = <<>>
    /\ taskValue = <<>>
    /\ worker = <<>>
    /\ chan = <<>>
    /\ collected = <<>>
    /\ writing = "no"
    /\ fileResults = <<>>
    /\ writes = <<>>
    /\ dirs \in {{}, {languages[1]}}
    /\ written = {}
    /\ reports = <<>>
    /\ error = NoError

\* the steps of run() itself and of processFilesInParallel and
\* writeFilesInBatch: synchronous code and continuations of awaits
RunSteps ==
    \/ StartRun
    \/ Discover
    \/ DispatchWave
    \/ CollectWave
    \/ WriteIssue
    \/ BatchResolve

\* the steps of the inline tasks around the turns of the chunk loop: the
\* read, the entry of the loops, the continuation after setImmediate, the
\* return and the continuation of the task's promise
InlineSteps ==
    \/ \E f \in 1..Len(inputFiles) : InlineRead(f)
    \/ \E f \in 1..Len(inputFiles) : InlineBegin(f)
    \/ \E f \in 1..Len(inputFiles) : InlineResume(f)
    \/ \E f \in 1..Len(inputFiles) : InlineReturn(f)
    \/ \E f \in 1..Len(inputFiles) : InlineDone(f)

\* a turn of the chunk loop of some inline task, and the condition under
\* which one can be taken (the guard of InlineChunk; a turn always moves
\* i or reaches the await, so it is never a stuttering step)
ChunkTurn == \E f \in 1..Len(inputFiles) : InlineChunk(f)

ChunkReady ==
    \E f \in 1..Len(inputFiles) :
        /\ task[f] = "extracting"
        /\ InlineAt(f).pc = "chunk"
        /\ InlineAt(f).i < Len(DocOf(inputFiles[f]).e)

\* a worker thread comes to its end, by itself or by a crash, and the
\* condition under which one can (the guard of WorkerMain and WorkerCrash)
WorkerEnds ==
    \/ \E f \in 1..Len(inputFiles) : WorkerMain(f)
    \/ \E f \in 1..Len(inputFiles) : WorkerCrash(f)

WorkerRunning == \E f \in 1..Len(inputFiles) : worker[f] = "running"

\* the handlers that runWorker registers for the events of a worker
WorkerSteps ==
    \/ \E f \in 1..Len(inputFiles) : OnMessage(f)
    \/ \E f \in 1..Len(inputFiles) : OnError(f)
    \/ \E f \in 1..Len(inputFiles) : OnExit(f)

\* the writes of fs.promises.writeFile settle
WriteSteps ==
    \/ \E j \in 1..Len(writes) : WriteDone(j)
    \/ \E j \in 1..Len(writes) : WriteFail(j)

NextLive ==
    \/ StartRun
    \/ Discover
    \/ DispatchWave
    \/ \E f \in 1..Len(inputFiles) : InlineRead(f)
    \/ \E f \in 1..Len(inputFiles) : InlineBegin(f)
    \/ \E f \in 1..Len(inputFiles) : InlineChunk(f)
    \/ \E f \in 1..Len(inputFiles) : InlineResume(f)
    \/ \E f \in 1..Len(inputFiles) : InlineReturn(f)
    \/ \E f \in 1..Len(inputFiles) : InlineDone(f)
    \/ \E f \in 1..Len(inputFiles) : WorkerMain(f)
    \/ \E f \in 1..Len(inputFiles) : WorkerCrash(f)
    \/ \E f \in 1..Len(inputFiles) : OnMessage(f)
    \/ \E f \in 1..Len(inputFiles) : OnError(f)
    \/ \E f \in 1..Len(inputFiles) : OnExit(f)
    \/ CollectWave
    \/ WriteIssue
    \/ \E j \in 1..Len(writes) : WriteDone(j)
    \/ \E j \in 1..Len(writes) : WriteFail(j)
    \/ BatchResolve

\* weak fairness of the turns of the chunk loops and of the ends of the
\* worker threads, with the enabling condition written as the guard
ChunkFair == ([]<>(~ChunkReady)) \/ ([]<><<ChunkTurn>>_vars)

WorkerFair == ([]<>(~WorkerRunning)) \/ ([]<><<WorkerEnds>>_vars)

SpecLive ==
    /\ InitLive
    /\ [][NextLive]_vars
    /\ WF_vars(RunSteps)
    /\ WF_vars(InlineSteps)
    /\ ChunkFair
    /\ WF_vars(WorkerSteps)
    /\ WorkerFair
    /\ WF_vars(WriteSteps)

(***************************************************************************)
(* Vocabulary of the claims about the pipeline.                            *)
(***************************************************************************)
Files == 1..Len(inputFiles)

\* run() has returned or thrown and no task and no write is still under way
RunOver ==
    /\ phase \in {"Done", "Failed"}
    /\ \A f \in Files : ~Pending(f) /\ worker[f] # "running" /\ chan[f] = {}
    /\ \A j \in 1..Len(writes) : writes[j] # "inflight"

\* every discovered file takes the inline path
AllInline == \A f \in Files : ~useWorkers \/ IsSmall(inputFiles[f].size)

MalformedFiles == {f \in Files : inputFiles[f].malformed}

\* the output of file f for lang is on disk
IsWritten(f, lang) ==
    \E w \in written : w.outputPath = OutputPath(lang, inputFiles[f].name)

\* no directory creation and no write has failed
NoWriteFault ==
    /\ error.type \notin {"mkdir", "write"}
    /\ \A j \in 1..Len(writes) : writes[j] # "failed"

(***************************************************************************)
(* C7  Failure isolation on the inline path: with exactly one malformed    *)
(* file among the discovered files, all of them dispatched and processed   *)
(* inline, the run makes exactly one failure report, for that file, and    *)
(* the outputs of the other files are written for every language.          *)
(***************************************************************************)
C7_InlineFailureIsolation ==
    (RunOver /\ inputDir.exists /\ AllInline /\ NoWriteFault
        /\ (\A f \in Files : task[f] # "none")
        /\ Cardinality(MalformedFiles) = 1) =>
        /\ Len(reports) = 1
        /\ \A f \in MalformedFiles : reports[1].file = inputFiles[f].name
        /\ \A f \in Files \ MalformedFiles :
               \A n \in 1..Len(languages) : IsWritten(f, languages[n])

(***************************************************************************)
(* C8  Worker failure reporting: the task of a file whose worker threw and *)
(* sent its failure message fails; the failure message is never taken for  *)
(* a list of extraction results.                                           *)
(***************************************************************************)
C8_WorkerFailureFailsTask ==
    /\ \A f \in Files :
           (worker[f] = "ended" /\ inputFiles[f].malformed) =>
               /\ task[f] # "fulfilled"
               /\ chan[f] = {} => task[f] = "rejected"
    /\ \A n \in 1..Len(collected) : collected[n].kind = "result"

(***************************************************************************)
(* C9  Batch writer completion: writeFilesInBatch resolves or rejects only *)
(* after every write it issued has settled, also when a write has failed   *)
(* (stated here for the invocations whose loop issued every write).        *)
(***************************************************************************)
C9_SettlesAfterEveryWrite ==
    (writing \in {"resolved", "rejected"} /\ error.type \in {"none", "write"}) =>
        \A j \in 1..Len(writes) : writes[j] # "inflight"

(***************************************************************************)
(* C10  Write failure isolation: when preparing or writing one destination *)
(* fails, the failure is reported for that destination and the writes of   *)
(* all other results of the invocation are still issued.                   *)
(***************************************************************************)
C10_OtherWritesStillIssued ==
    (writing = "rejected"
        /\ \A j \in 1..Len(fileResults) : fileResults[j].kind = "result") =>
        /\ error.type \in {"mkdir", "write"}
        /\ \A j \in 1..Len(fileResults) :
               fileResults[j].outputPath # error.path =>
                   writes[j] # "unissued"

(***************************************************************************)
(* Vocabulary of the claims about the waves.                               *)
(***************************************************************************)
\* the files dispatched (inline or to a worker) and not yet settled
InFlight == {f \in Files : Pending(f)}

\* the files not yet dispatched, while processFilesInParallel is under way
Waiting ==
    IF phase \in {"Dispatching", "Collecting"}
    THEN {f \in Files : task[f] = "none"}
    ELSE {}

C12_WaitingTakesFreeSlot ==
    (useWorkers /\ Waiting # {} /\ InFlight # {}) =>
        Cardinality(InFlight) >= maxWorkers

(***************************************************************************)
(* C13  Routing by size: a file smaller than 100 KB is processed inline    *)
(* and no Worker is created for it; a file of 100 KB or more, the boundary *)
(* included, is dispatched to a worker; with useWorkers = false no Worker  *)
(* is created for any file.                                                *)
(***************************************************************************)
C13_RoutingBySize ==
    \A f \in Files :
        LET large == inputFiles[f].size >= 100 * 1024 IN
        /\ (~large \/ ~useWorkers) =>
               /\ worker[f] = "none"
               /\ task[f] # "worker"
               /\ chan[f] = {}
        /\ (large /\ useWorkers /\ task[f] # "none") =>
               /\ worker[f] # "none"
               /\ task[f] \notin {"reading", "extracting"}

\* one wave holds a file one byte below the threshold, read inline, and a
\* file on the threshold, with its worker running
C13_Witness ==
    /\ useWorkers
    /\ \E f, g \in Files :
           /\ inputFiles[f].size = 100 * 1024 - 1
           /\ task[f] = "reading" /\ worker[f] = "none"
           /\ inputFiles[g].size = 100 * 1024
           /\ task[g] = "worker" /\ worker[g] = "running"

(***************************************************************************)
(* Vocabulary of the claims about the destinations.                        *)
(***************************************************************************)
\* the elements of the argument of writeFilesInBatch that have a destination
Destined == {j \in 1..Len(fileResults) : fileResults[j].kind = "result"}

UniqueDestinations ==
    /\ \A j, k \in Destined :
           j # k => fileResults[j].outputPath # fileResults[k].outputPath
    /\ \A j, k \in 1..Len(writes) :
           (j # k /\ writes[j] = "inflight" /\ writes[k] = "inflight") =>
               fileResults[j].outputPath # fileResults[k].outputPath

\* no language code is repeated in the list
DistinctLanguages ==
    \A m, n \in 1..Len(languages) : m # n => languages[m] # languages[n]

(***************************************************************************)
(* C14  Unique destinations: for every configured language list and every  *)
(* set of discovered files, any two distinct results handed to one         *)
(* writeFilesInBatch invocation have different destination paths, so two   *)
(* concurrent writes never target the same file.                           *)
(***************************************************************************)
C14_UniqueDestinations == UniqueDestinations

(***************************************************************************)
(* C14 as amended: for every language list that names no language twice,   *)
(* any two distinct results handed to one writeFilesInBatch invocation     *)
(* have different destination paths, and no two writes in flight target    *)
(* the same file.                                                          *)
(***************************************************************************)
C14_UniqueDestinationsAmended == DistinctLanguages => UniqueDestinations

\* the results of two files in two languages, all four writes in flight
C14_Witness ==
    /\ DistinctLanguages
    /\ Len(inputFiles) = 2
    /\ Len(fileResults) = 2 * Len(languages)
    /\ Len(languages) = 2
    /\ \A j \in 1..Len(writes) : writes[j] = "inflight"

(***************************************************************************)
(* Vocabulary of the claims about the outcome of a run.                    *)
(***************************************************************************)
\* the .json entries of the input directory
JsonEntries == SelectSeq(inputDir.entries, IsJsonFile)

\* run() has resolved
RunResolved == program = "run" /\ phase = "Done"

\* the CLI process has ended
CliEnded == program = "cli" /\ cli.pc = "exited"

\* the outputs of one (file, language) pair for each .json entry and each
\* requested language, each the extraction of the file for the language
ExpectedOutputs ==
    {[outputPath |-> [lang |-> languages[n], file |-> JsonEntries[f].name],
      outputContent |-> extractTranslations(DocOf(JsonEntries[f]),
                                            languages[n])] :
         f \in 1..Len(JsonEntries), n \in 1..Len(languages)}

(***************************************************************************)
(* C15  One output per (file, language): after a run in which every file   *)
(* is processed successfully (run() resolves, the CLI ends with code 0),   *)
(* the outputs written are exactly one document at                         *)
(* outputDir/<language>/<fileName> for each discovered .json file and each *)
(* requested language, holding that language's extraction of the file.     *)
(***************************************************************************)
C15_OneOutputPerPair ==
    (RunResolved \/ (CliEnded /\ cli.exitCode = 0)) =>
        written = ExpectedOutputs

\* run() has resolved over two files, one taken by a worker and one inline,
\* in two languages: four outputs
C15_Witness ==
    /\ RunResolved
    /\ DistinctLanguages /\ Len(languages) = 2
    /\ Len(inputFiles) = 2
    /\ \E f, g \in Files : worker[f] = "ended" /\ worker[g] = "none"
    /\ Cardinality(written) = 4

(***************************************************************************)
(* Vocabulary of the claims about the phases of run().                     *)
(***************************************************************************)
PhaseRank(p) ==
    CASE p = "Idle" -> 0
      [] p = "Discovering" -> 1
      [] p = "Dispatching" -> 2
      [] p = "Collecting" -> 3
      [] p = "Writing" -> 4
      [] p = "Done" -> 5
      [] p = "Failed" -> 6

\* the results of every discovered file have been collected
AllCollected ==
    /\ wi >= Len(inputFiles)
    /\ \A f \in Files : task[f] = "fulfilled"

\* a step of run() writes no output before every result is collected, and
\* after it an error that has occurred has led to Failed
WritesLastFailsFinal ==
    /\ (program = "run" /\ written' # written) => AllCollected
    /\ Len(reports') > Len(reports) =>
           phase \notin {"Idle", "Done"} /\ phase' = "Failed"
    /\ ((\E f \in 1..Len(task') : task'[f] = "rejected")
        \/ (\E j \in 1..Len(writes') : writes'[j] = "failed")
        \/ (~inputDir.exists /\ PhaseRank(phase') > 1)) => phase' = "Failed"

(***************************************************************************)
(* C16  Orchestrator phase order: run() passes through Discovering,        *)
(* Dispatching, Collecting, Writing and Done in that order and never goes  *)
(* back; no output file is written before the results of every discovered  *)
(* file have been collected; an error leads from every non-Idle phase to   *)
(* Failed, which is never left.                                            *)
(***************************************************************************)
C16_PhaseOrder ==
    [][/\ PhaseRank(phase') >= PhaseRank(phase)
       /\ WritesLastFailsFinal]_vars

(***************************************************************************)
(* C16 as amended: Dispatching and Collecting alternate, once per wave:    *)
(* from Collecting run() goes back to Dispatching while files are left to  *)
(* dispatch.  Apart from that the phases follow in the order Discovering,  *)
(* Dispatching, Collecting, Writing, Done; no output file is written       *)
(* before the results of every discovered file have been collected; an     *)
(* error leads from every non-Idle phase to Failed, which is never left.   *)
(***************************************************************************)
C16_PhaseOrderAmended ==
    [][/\ \/ PhaseRank(phase') >= PhaseRank(phase)
          \/ /\ phase = "Collecting" /\ phase' = "Dispatching"
             /\ wi' < Len(inputFiles)
       /\ WritesLastFailsFinal]_vars

\* run() has resolved after more than one wave, with outputs written
C16_Witness ==
    /\ RunResolved
    /\ Len(inputFiles) > Concurrency
    /\ written # {}

(***************************************************************************)
(* Vocabulary of the claims about the life of a task.                      *)
(***************************************************************************)
\* what the task of a file can become in one step
TaskSuccessors(state) ==
    CASE state = "none" -> {"none", "reading", "worker"}
      [] state = "reading" -> {"reading", "extracting", "rejected"}
      [] state = "extracting" -> {"extracting", "fulfilled"}
      [] state = "worker" -> {"worker", "fulfilled", "rejected"}
      [] state = "fulfilled" -> {"fulfilled"}
      [] state = "rejected" -> {"rejected"}

\* what the Worker of a file can become in one step
WorkerSuccessors(state) ==
    CASE state = "none" -> {"none", "running"}
      [] state = "running" -> {"running", "ended", "crashed"}
      [] state = "ended" -> {"ended"}
      [] state = "crashed" -> {"crashed"}

C18_MissingInputDir ==
    ~inputDir.exists =>
        /\ inputFiles = <<>> /\ task = <<>> /\ worker = <<>> /\ chan = <<>>
        /\ collected = <<>> /\ writing = "no" /\ writes = <<>>
        /\ written = {}
        /\ phase \in {"Idle", "Discovering", "Failed"}
        /\ phase = "Failed" => error.type = "ENOENT" /\ Len(reports) = 1
        /\ cli.pc \in {"idle", "check", "exited"}
        /\ cli.inputFiles = <<>> /\ cli.content = EmptyObj
        /\ cli.totalGenerated = 0
        /\ cli.pc = "exited" => cli.exitCode # 0 /\ cli.errors = 1

\* either program has ended on a missing input directory
C18_Witness ==
    /\ ~inputDir.exists
    /\ \/ program = "run" /\ phase = "Failed"
       \/ CliEnded

\* the input directory exists and holds no .json entry
NoJsonEntry ==
    /\ inputDir.exists
    /\ \A n \in 1..Len(inputDir.entries) : inputDir.entries[n].name.ext # "json"

(***************************************************************************)
(* C19  Zero matching files: when the input directory exists and holds no  *)
(* .json file, run() never enters Failed, creates no task and writes       *)
(* nothing, and resolves with a count of 0; the CLI warns once and ends    *)
(* with code 0, with nothing generated.                                    *)
(***************************************************************************)
C19_ZeroMatchingFiles ==
    NoJsonEntry =>
        /\ phase \in {"Idle", "Discovering", "Writing", "Done"}
        /\ error = NoError /\ reports = <<>>
        /\ inputFiles = <<>> /\ task = <<>> /\ worker = <<>>
        /\ collected = <<>> /\ writes = <<>>
        /\ written = {}
        /\ writing \in {"no", "awaiting", "resolved"}
        /\ phase = "Done" <=> writing = "resolved"
        /\ cli.pc \in {"idle", "check", "list", "exited"}
        /\ cli.pc = "exited" =>
               /\ cli.exitCode = 0
               /\ cli.warnings = 1 /\ cli.errors = 0
               /\ cli.totalGenerated = 0

\* run() has resolved, or the CLI has ended, over a directory that holds an
\* entry and no .json entry
C19_Witness ==
    /\ NoJsonEntry
    /\ Len(inputDir.entries) > 0
    /\ RunResolved \/ CliEnded

(***************************************************************************)
(* C20  Worker crash: when a worker ends with a non-zero exit code without *)
(* having delivered a result, the task of its file fails (it is never      *)
(* fulfilled, and it is rejected by the first of the worker's events that  *)
(* is handled), run() rejects, and the file is not dispatched again.       *)
(***************************************************************************)
C20_WorkerCrashFailsRun ==
    [][\A f \in DOMAIN worker \cap DOMAIN worker' :
           /\ worker[f] = "crashed" =>
                  /\ worker'[f] = "crashed"
                  /\ task'[f] \in {"worker", "rejected"}
           /\ worker'[f] = "crashed" =>
                  /\ task'[f] = "worker" =>
                         Event("exit", 1, NoValue) \in chan'[f]
                  /\ task'[f] = "rejected" =>
                         /\ taskValue'[f].err.type \in
                                {"WorkerError", "WorkerExit"}
                         /\ phase' = "Failed"
                         /\ error' # NoError]_vars

\* a worker has died without an 'error' event: its exit has rejected the
\* task and run() has failed with that rejection
C20_Witness ==
    \E f \in Files :
        /\ worker[f] = "crashed" /\ chan[f] = {}
        /\ task[f] = "rejected"
        /\ taskValue[f].err.type = "WorkerExit"
        /\ phase = "Failed" /\ error = taskValue[f].err

(***************************************************************************)
(* Vocabulary of the claims about the chunk loop and the work list.        *)
(***************************************************************************)
\* the chunks of the current call, in order
ChunksOf(log) == SelectSeq(log, LAMBDA e : e.ev = "chunk")

\* the call of extractTranslationsChunked for the last language has returned
LastCallReturned == Extracted /\ op \in ChunkedOps

(***************************************************************************)
(* C21  Bounded synchronous work: the keys the traversal examines in one   *)
(* synchronous stretch (one turn of the chunk loop, between two yields)    *)
(* are bounded by a function of chunkSize alone.  A stretch over chunkSize *)
(* entries without nested objects examines chunkSize keys, so the bound    *)
(* that does not depend on what is below the top-level keys is chunkSize.  *)
(***************************************************************************)
C21_BoundedStretch ==
    \A n \in 1..Len(steps) :
        steps[n].ev = "chunk" => steps[n].visits <= chunkSize

(***************************************************************************)
(* C22  Determinism of extraction: the output for a language is a function *)
(* of the document, the language and the language set alone.  What the     *)
(* chunk loop has returned, turn by turn, with its chunk size on its path  *)
(* (inline or worker) is what the extraction of the same document returns  *)
(* with every other chunk size and on the other path.                      *)
(***************************************************************************)
C22_Determinism ==
    LastCallReturned =>
        \A n \in 1..Len(results) : \A which \in ChunkedOps :
            \A size \in 1..MaxChunk :
                results[n].outputContent
                    = extractTranslationsChunked(which, content,
                                                 results[n].lang, size)

\* a document of several top-level keys, cut in chunks of one entry, whose
\* outputs hold a nested object and differ between the languages
C22_Witness ==
    /\ LastCallReturned
    /\ chunkSize = 1 /\ Len(content.e) >= 2
    /\ Len(results) = 2
    /\ results[1].outputContent # results[2].outputContent
    /\ \E n \in 1..Len(results) : ObjectPaths(results[n].outputContent) # {}
    /\ \A n \in 1..Len(results) :
           results[n].outputContent
               = extractTranslationsChunked("worker", content,
                                            results[n].lang, MaxChunk)

(***************************************************************************)
(* C24  Opaque keys: every key of an output, at every path, is a key of    *)
(* the input at the same path; a key in dot notation is not split and a    *)
(* nested key is not flattened.                                            *)
(***************************************************************************)
C24_OpaqueKeys ==
    Extracted =>
        \A n \in 1..Len(results) :
            \A x \in AllEntries(results[n].outputContent, <<>>) :
                HasPath(content, x.p)

(***************************************************************************)
(* C24 as amended: for every document in which no value stored under a     *)
(* language key is itself an object, every key of an output is a key of    *)
(* the input at the same path, a nested object of the output standing      *)
(* where the input holds a Branch; and every Branch key and every key of a *)
(* Leaf with a truthy value for the language is in the output under its    *)
(* own name at its own path.                                               *)
(***************************************************************************)
C24_OpaqueKeysAmended ==
    (Extracted /\ NoObjectUnderLanguage(content)) =>
        \A n \in 1..Len(results) :
            /\ \A x \in AllEntries(results[n].outputContent, <<>>) :
                   /\ HasPath(content, x.p)
                   /\ IsObject(x.v) = IsBranchNode(ValueAt(content, x.p))
            /\ \A r \in Reached(content, <<>>) :
                   (\/ IsBranchNode(r.v)
                    \/ /\ IsLeafNode(r.v)
                       /\ Truthy(Get(r.v, results[n].lang)))
                       => HasPath(results[n].outputContent, r.p)

\* a key in dot notation below a key in dot notation: the output holds both
\* under their own names, nested as in the input
C24_Witness ==
    /\ Extracted /\ NoObjectUnderLanguage(content)
    /\ \E n \in 1..Len(results) :
           \E x \in AllEntries(results[n].outputContent, <<>>) :
               /\ x.p = <<"a.b", "a.b">>
               /\ x.v = Str("X")
               /\ KeysOf(results[n].outputContent) = {"a.b"}

\* the number of chunks of size entries that n entries make
CeilDiv(n, size) == (n + size - 1) \div size

NoRepeat(seq) == \A a, b \in 1..Len(seq) : seq[a] = seq[b] => a = b

\* the elements of seq
Range(seq) == {seq[n] : n \in 1..Len(seq)}

\* the object a chunk of the current call was made of
ChunkObjOf(e) == ChunkObj(content, e.from, chunkSize)

(***************************************************************************)
(* C29  Work-list traversal terminates: a call of                          *)
(* extractTranslationsIterative returns with an empty stack, having pushed *)
(* every Branch of its argument exactly once and popped it exactly once    *)
(* (the argument itself, which the stack starts with, is popped once and   *)
(* never pushed); a Leaf or a non-object is never pushed.                  *)
(***************************************************************************)
C29_WorkListTerminates ==
    op \in ChunkedOps =>
        \A n \in 1..Len(steps) :
            steps[n].ev = "chunk" =>
                /\ steps[n].stack = <<>>
                /\ NoRepeat(steps[n].pushed)
                /\ NoRepeat(steps[n].popped)
                /\ Range(steps[n].pushed) = BranchPaths(ChunkObjOf(steps[n]))
                /\ Range(steps[n].popped)
                       = BranchPaths(ChunkObjOf(steps[n])) \cup {<<>>}
                /\ \A r \in Reached(ChunkObjOf(steps[n]), <<>>) :
                       (IsLeafNode(r.v) \/ ~IsObject(r.v)) =>
                           r.p \notin Range(steps[n].pushed)

\* one call over the whole document: a Branch in a Branch holding a key that
\* is no Branch; both Branches were pushed and popped, the innermost value not
C29_Witness ==
    /\ LastCallReturned
    /\ Len(steps) = 1 /\ steps[1].n = Len(content.e)
    /\ Len(steps[1].pushed) = 2 /\ Len(steps[1].popped) = 3
    /\ steps[1].stack = <<>>
    /\ \E r \in Reached(content, <<>>) :
           /\ Len(r.p) = 3
           /\ ~IsBranchNode(r.v)
           /\ r.p \notin Range(steps[1].pushed)

\* the cells of the parsed document, as JSON.parse left them
Parsed == Store(<<>>, content).h

\* the cells that the extraction has made since
MadeCells == (Len(Parsed) + 1)..Len(heap.h)

(***************************************************************************)
(* C23  Extraction has no side effect on its input: whatever extractions   *)
(* have run (languages, chunks), every object of the parsed document holds *)
(* what JSON.parse put in it, and the output of every language done is the *)
(* extraction of that same document.                                       *)
(***************************************************************************)
C23_InputUnchanged ==
    op \in ChunkedOps =>
        /\ \A a \in 1..Len(Parsed) : heap.h[a] = Parsed[a]
        /\ Load(heap.h, Ref(heap.root)) = content
        /\ Len(heap.outs) = Len(results)
        /\ \A n \in 1..Len(heap.outs) :
               /\ Load(heap.h, Ref(heap.outs[n])) = results[n].outputContent
               /\ Load(heap.h, Ref(heap.outs[n]))
                      = ExtractBy(op, content, results[n].lang)

\* every language is done, the last one in several chunks; an output shares
\* an object with the parsed document (an object stored under a language key)
C23_Witness ==
    /\ LastCallReturned
    /\ Len(heap.outs) = Len(languages)
    /\ \E a \in MadeCells : \E n \in 1..Len(heap.h[a]) :
           heap.h[a][n].v.t = "ref" /\ heap.h[a][n].v.a \in 1..Len(Parsed)
    /\ \A a \in 1..Len(Parsed) : heap.h[a] = Parsed[a]
    /\ yields >= 1

\* the messages of the worker of file f that the main thread has not handled
Messages(ch) == {e \in ch : e.ev = "message"}

\* value is the complete list of results of file: one result per element of
\* the language list, in its order, each with language, destination and the
\* extraction of the file's document for that language
IsFullResult(value, file) ==
    /\ value.kind = "list"
    /\ Len(value.items) = Len(languages)
    /\ \A n \in 1..Len(languages) :
           /\ value.items[n].lang = languages[n]
           /\ value.items[n].outputPath
                  = [lang |-> languages[n], file |-> file.name]
           /\ value.items[n].outputContent
                  = extractTranslations(DocOf(file), languages[n])

(***************************************************************************)
(* C28  Worker protocol: a worker sends nothing while it runs; when it     *)
(* completes it has sent exactly one message, the complete list of its     *)
(* file's results (or, its try block having thrown, the failure message,   *)
(* with exit code 1); it sends nothing afterwards, so no partial list and  *)
(* no results after a failure message.                                     *)
(***************************************************************************)
C28_WorkerProtocol ==
    [][\A f \in DOMAIN worker \cap DOMAIN worker' :
           /\ worker'[f] \in {"none", "running"} => Messages(chan'[f]) = {}
           /\ (worker[f] = "running" /\ worker'[f] = "ended") =>
                  /\ Cardinality(Messages(chan'[f])) = 1
                  /\ \A e \in Messages(chan'[f]) :
                         IF inputFiles[f].malformed
                         THEN /\ e.value.kind = "failure"
                              /\ Event("exit", 1, NoValue) \in chan'[f]
                         ELSE /\ IsFullResult(e.value, inputFiles[f])
                              /\ Event("exit", 0, NoValue) \in chan'[f]
           /\ worker[f] \in {"ended", "crashed"} =>
                  /\ worker'[f] = worker[f]
                  /\ Messages(chan'[f]) \subseteq Messages(chan[f])]_vars

\* a worker has completed and its one message, the results of both languages
\* of the default list, waits to be handled
C28_Witness ==
    \E f \in Files :
        /\ worker[f] = "ended" /\ task[f] = "worker"
        /\ languages = DefaultLanguages
        /\ \E e \in chan[f] :
               /\ e.ev = "message"
               /\ IsFullResult(e.value, inputFiles[f])
               /\ e.value.items[1].outputContent
                      # e.value.items[2].outputContent

\* the top-level entries that the chunk loop of file f has been through
EntriesDone(f) ==
    IF InlineAt(f).pc = "yield" THEN InlineAt(f).i + chunkSize
    ELSE InlineAt(f).i

(***************************************************************************)
(* C27  No preemption inside a chunk: whatever the interleaving of the     *)
(* inline files of a wave, what a file's chunk loop holds between two      *)
(* steps is the extraction of whole groups of its own entries (all the     *)
(* entries before a multiple of chunkSize, nothing of a later group and    *)
(* nothing of another file), the results it has pushed are those of its    *)
(* own document, and the results it returns are those of the file          *)
(* processed alone.                                                        *)
(***************************************************************************)
C27_NoPreemption ==
    \A f \in Files :
        LET pos == InlineAt(f)
            doc == DocOf(inputFiles[f])
        IN  /\ (task[f] = "extracting" /\ pos.pc \in {"chunk", "yield"}) =>
                   /\ EntriesDone(f) % chunkSize = 0
                   /\ pos.result
                          = extractTranslations(
                                Obj(Slice(doc.e, 0, EntriesDone(f))),
                                languages[pos.li])
            /\ task[f] = "extracting" =>
                   \A n \in 1..Len(pos.results) :
                       /\ pos.results[n].lang = languages[n]
                       /\ pos.results[n].outputContent
                              = extractTranslations(doc, languages[n])
            /\ (task[f] = "fulfilled" /\ program = "run") =>
                   IsFullResult(taskValue[f], inputFiles[f])

\* two files of one wave are both between two chunks, one in its second
\* language and the other in its first
C27_Witness ==
    \E f, g \in Files :
        /\ f # g
        /\ task[f] = "extracting" /\ task[g] = "extracting"
        /\ InlineAt(f).pc = "yield" /\ InlineAt(g).pc = "yield"
        /\ InlineAt(f).li = 2 /\ Len(InlineAt(f).results) = 1
        /\ InlineAt(g).li = 1
        /\ InlineAt(f).result # EmptyObj /\ InlineAt(g).result # EmptyObj

\* a plugin is part of the build
PluginBuild == program \in {"plugin", "apply"}

\* the generation of the tapped function has failed: its catch block has run
\* for an error of the generation itself
GenerationFailed ==
    \/ program = "apply" /\ phase = "Failed"
    \/ /\ program = "plugin"
       /\ \E n \in 1..Len(plugin.calls) :
              plugin.calls[n].type \notin {"undefined", "build"}

(***************************************************************************)
(* C25  Conditional plugin run: when the npm lifecycle event is not        *)
(* 'i18n-generator', apply() taps no compiler hook, and the build reads no *)
(* translation file and writes no output; otherwise apply() taps           *)
(* beforeCompile, the generation runs in the tapped function, and the      *)
(* callback is called exactly once, with the error when the generation     *)
(* failed and without argument when it did not.                            *)
(***************************************************************************)
C25_ConditionalRun ==
    PluginBuild =>
        /\ ~plugin.shouldRun =>
               /\ plugin.pc \in {"idle", "returned"}
               /\ plugin.hooks = <<>> /\ plugin.calls = <<>>
               /\ plugin.inputFiles = <<>> /\ inputFiles = <<>>
               /\ phase = "Idle" /\ written = {} /\ writes = <<>>
        /\ plugin.shouldRun =>
               /\ plugin.pc = "idle" => plugin.hooks = <<>>
               /\ plugin.pc # "idle" => plugin.hooks = <<"beforeCompile">>
               /\ plugin.pc \in {"idle", "tapped"} =>
                      phase = "Idle" /\ written = {} /\ inputFiles = <<>>
               /\ plugin.pc # "ended" => plugin.calls = <<>>
               /\ plugin.pc = "ended" =>
                      /\ Len(plugin.calls) = 1
                      /\ GenerationFailed <=> plugin.calls[1] # NoArgument
                      /\ program = "apply" =>
                             plugin.calls[1]
                                 = (IF phase = "Failed" THEN error
                                    ELSE NoArgument)

\* the elements of the batch whose write this step has issued
IssuedNow ==
    {j \in DOMAIN writes' :
        /\ writes'[j] # "unissued"
        /\ (j \in DOMAIN writes => writes[j] = "unissued")}

(***************************************************************************)
(* C30  Directory before write: no step removes a directory; the step that *)
(* issues the write of a result of the batch (writeFilesInBatch) or writes *)
(* an output file (the plugin, the CLI, a write of the batch that ends)    *)
(* leaves the destination directory of that result in place, whether it    *)
(* found it there or created it.                                           *)
(***************************************************************************)
C30_DirectoryBeforeWrite ==
    [][/\ dirs \subseteq dirs'
       /\ \A j \in IssuedNow :
              /\ fileResults'[j].kind = "result"
              /\ Dirname(fileResults'[j].outputPath) \in dirs'
       /\ \A w \in written' \ written :
              Dirname(w.outputPath) \in dirs']_vars

\* the batch of run() is written: files in two directories, both in place
C30_Witness ==
    /\ program = "run" /\ phase = "Done"
    /\ \E j, k \in 1..Len(writes) :
           /\ writes[j] = "written" /\ writes[k] = "written"
           /\ Dirname(fileResults[j].outputPath)
                  # Dirname(fileResults[k].outputPath)
           /\ {Dirname(fileResults[j].outputPath),
               Dirname(fileResults[k].outputPath)} \subseteq dirs
           /\ \E w \in written : w.outputPath = fileResults[j].outputPath

\* the command line holds the flag --name, alone or with a value
Requested(name) ==
    \E n \in 1..Len(cli.argv) :
        LET a == cli.argv[n] IN
        /\ StartsWith(a, <<"-", "-">> \o name)
        /\ Len(a) = Len(name) + 2 \/ a[Len(name) + 3] = "="

HelpRequested == Requested(<<"h", "e", "l", "p">>) \/ Requested(<<"h">>)

VersionRequested ==
    Requested(<<"v", "e", "r", "s", "i", "o", "n">>) \/ Requested(<<"v">>)

\* the working directory holds a configuration: an i18n.config.js that
\* loads, or none and a package.json with the field
ConfigFound ==
    \/ cli.cwd.config \in {"esm", "cjs"}
    \/ cli.cwd.config = "absent" /\ cli.cwd.pkg = "field"

\* the working directory holds no configuration at all
NoConfiguration ==
    cli.cwd.config = "absent" /\ cli.cwd.pkg \in {"absent", "plain"}

\* some .json entry of the input directory is not valid JSON
SomeInvalidJson ==
    \E f \in 1..Len(JsonEntries) : JsonEntries[f].malformed

\* generation ran and succeeded: a configuration was there, and every
\* (file, language) pair was generated and is on the disk
GenerationSucceeded ==
    /\ ~HelpRequested /\ ~VersionRequested
    /\ ConfigFound
    /\ inputDir.exists
    /\ cli.totalGenerated = Len(JsonEntries) * Len(languages)
    /\ written = ExpectedOutputs

(***************************************************************************)
(* C31  CLI exit code: the CLI process ends with exit code 0 exactly when  *)
(* generation succeeded, or when help or version was requested, in which   *)
(* case no generation runs (the script never gets to loadConfig and        *)
(* nothing is read or written); it ends with a non-zero code when the      *)
(* input directory is missing, when an input file is not valid JSON, or    *)
(* when no configuration is found.                                         *)
(***************************************************************************)
C31_CliExitCode ==
    program = "cli" =>
        /\ (HelpRequested \/ VersionRequested) =>
               /\ cli.pc \in {"script", "exited"}
               /\ cli.inputFiles = <<>> /\ cli.totalGenerated = 0
               /\ written = {}
        /\ cli.pc = "exited" =>
               /\ cli.exitCode = 0 <=>
                      (HelpRequested \/ VersionRequested \/ GenerationSucceeded)
               /\ (/\ ~HelpRequested /\ ~VersionRequested
                   /\ \/ NoConfiguration
                      \/ ~inputDir.exists
                      \/ SomeInvalidJson)
                      => cli.exitCode # 0

\* the process has ended with code 0 after generating two files in two
\* languages, on a command line with an argument that is no flag and a
\* configuration from package.json
C31_Witness ==
    /\ CliEnded /\ cli.exitCode = 0
    /\ cli.argv # <<>> /\ ~HelpRequested /\ ~VersionRequested
    /\ cli.cwd.pkg = "field"
    /\ cli.totalGenerated = 4

\* what processFileMainThread returns for a file: the list of its results,
\* and nothing for a file that does not parse (its promise rejects)
MainThreadReturns(file) ==
    IF file.malformed THEN NoValue ELSE FileResultsOf("chunked", file)

(***************************************************************************)
(* C32  Worker and inline paths agree: whatever the routing, the value the *)
(* task of a file is fulfilled with is the list of results (language,      *)
(* destination path, extracted document) processFileMainThread returns for *)
(* the file, and what is written for a file is what that list holds: the   *)
(* routing decision never changes what is written.                         *)
(***************************************************************************)
C32_PathsAgree ==
    program = "run" =>
        /\ \A f \in 1..Len(task) :
               task[f] = "fulfilled" =>
                   /\ taskValue[f].kind = "list"
                   /\ taskValue[f] = MainThreadReturns(inputFiles[f])
        /\ \A w \in written :
               \E f \in 1..Len(inputFiles), n \in 1..Len(languages) :
                   LET r == MainThreadReturns(inputFiles[f]) IN
                   /\ r.kind = "list"
                   /\ w.outputPath = r.items[n].outputPath
                   /\ w.outputContent = r.items[n].outputContent
        /\ (\E f \in 1..Len(inputFiles) : inputFiles[f].malformed) =>
               written = {}

FailedTasks == {f \in 1..Len(task) : task[f] = "rejected"}

(***************************************************************************)
(* C34  Failure aborts the run: when the task of any file in a wave fails  *)
(* (inline parse error or worker rejection), processFilesInParallel        *)
(* rejects with the reason of a failed task and run() fails, no file of a  *)
(* later wave is dispatched, writeFilesInBatch is never invoked, and no    *)
(* output is written for any file, the successfully processed ones         *)
(* included.                                                               *)
(***************************************************************************)
C34_FailureAbortsRun ==
    (program = "run" /\ FailedTasks # {}) =>
        /\ phase = "Failed"
        /\ \E f \in FailedTasks : error = taskValue[f].err
        /\ Len(reports) = 1
        /\ FailedTasks \subseteq Batch
        /\ \A g \in 1..Len(inputFiles) :
               g > wi + Concurrency => task[g] = "none" /\ worker[g] = "none"
        /\ writing = "no" /\ fileResults = <<>> /\ writes = <<>>
        /\ written = {}

\* the second wave has failed after the first was collected: run() has
\* failed with the results of the first file in hand and nothing written
C34_Witness ==
    /\ program = "run" /\ phase = "Failed"
    /\ FailedTasks # {}
    /\ collected # <<>>
    /\ \E f \in 1..Len(task) : task[f] = "fulfilled"
    /\ written = {}

\* the promise of runWorker for the file f, as the orchestrator sees it
PromiseOf(f) == [state |-> task[f], value |-> taskValue[f]]

\* the promise p of runWorker for the file f after the handler of the
\* event e has run: worker.on('message', resolve), worker.on('error',
\* reject), worker.on('exit', code => { if (code !== 0) reject(...) });
\* resolve and reject do nothing to a promise that has settled
Settle(f, p, e) ==
    IF p.state # "worker" THEN p
    ELSE CASE e.ev = "message" -> [state |-> "fulfilled", value |-> e.value]
           [] e.ev = "error" ->
                  [state |-> "rejected",
                   value |-> Rejection("WorkerError", inputFiles[f].name)]
           [] e.ev = "exit" ->
                  IF e.code # 0
                  THEN [state |-> "rejected",
                        value |-> Rejection("WorkerExit", inputFiles[f].name)]
                  ELSE p

(***************************************************************************)
(* C35  Single settlement of a worker task: the promise of runWorker       *)
(* settles at most once, by the first of the worker's message, error and   *)
(* non-zero exit events that is handled, later events having no effect;    *)
(* and for a worker that reports a failure and then exits with code 1, the *)
(* promise ends fulfilled or rejected alike whichever of the failure       *)
(* message and the exit event is handled first.                            *)
(***************************************************************************)
C35_SingleSettlement ==
    [][\A f \in DOMAIN task \cap DOMAIN task' :
          /\ task[f] \in {"fulfilled", "rejected"} =>
                 task'[f] = task[f] /\ taskValue'[f] = taskValue[f]
          /\ \A e \in chan[f] :
                 chan'[f] = chan[f] \ {e} =>
                     [state |-> task'[f], value |-> taskValue'[f]]
                         = Settle(f, PromiseOf(f), e)
          /\ \A m, x \in chan[f] :
                 (/\ task[f] = "worker"
                  /\ m.ev = "message" /\ m.value.kind = "failure"
                  /\ x.ev = "exit" /\ x.code = 1) =>
                     Settle(f, Settle(f, PromiseOf(f), m), x).state
                         = Settle(f, Settle(f, PromiseOf(f), x), m).state]_vars

\* the elements the file f brings to the result list: one result for each
\* language, in the order of the language list, each the extraction of the
\* file for the language; for a file that does not parse, the failure
\* object of its worker
OrderedItems(f) ==
    IF inputFiles[f].malformed THEN <<FailureItem(NoValue)>>
    ELSE [n \in 1..Len(languages) |->
            [kind |-> "result",
             lang |-> languages[n],
             outputPath |-> [lang |-> languages[n],
                             file |-> inputFiles[f].name],
             outputContent |-> extractTranslations(DocOf(inputFiles[f]),
                                                   languages[n])]]

\* the elements of the files 1..k, in discovery order
RECURSIVE OrderedUpTo(_)
OrderedUpTo(k) ==
    IF k = 0 THEN <<>> ELSE OrderedUpTo(k - 1) \o OrderedItems(k)

(***************************************************************************)
(* C36  Collected order is independent of completion order: the result     *)
(* list of processFilesInParallel, as it grows wave by wave and as it is   *)
(* returned, is ordered by file discovery order and, within a file, by the *)
(* order of the language list, whatever the order in which the inline      *)
(* tasks and the workers of a wave finish; a task that has finished holds  *)
(* the results of its own file whichever tasks finished before it.         *)
(***************************************************************************)
C36_CollectedOrder ==
    program = "run" =>
        /\ collected = OrderedUpTo(Min(wi, Len(inputFiles)))
        /\ \A f \in 1..Len(task) :
               (task[f] = "fulfilled" /\ taskValue[f].kind = "list") =>
                   taskValue[f].items = OrderedItems(f)
        /\ phase \in {"Writing", "Done"} => wi >= Len(inputFiles)

\* the list has been returned after a wave of two files, the first taken
\* by a worker and the second inline, in two languages
C36_Witness ==
    /\ program = "run" /\ phase = "Writing"
    /\ Len(inputFiles) = 2 /\ Concurrency >= 2
    /\ worker[1] = "ended" /\ worker[2] = "none"
    /\ DistinctLanguages
    /\ Len(collected) = 4

\* run() has returned or thrown
RunEnded == phase \in {"Done", "Failed"}

\* every discovered file has been dispatched
AllDispatched ==
    /\ DOMAIN task = 1..Len(inputFiles)
    /\ \A f \in DOMAIN task : task[f] # "none"

(***************************************************************************)
(* C37  The pipeline always finishes: for every positive chunkSize and     *)
(* maxWorkers and every set of files, if every dispatched task and every   *)
(* issued write eventually settles, run() eventually reaches Done or       *)
(* Failed and stays there, so that it never stays forever in Dispatching,  *)
(* Collecting or Writing; and when it ends without a failure every file of *)
(* every wave has been dispatched.                                         *)
(***************************************************************************)
C37_PipelineFinishes ==
    <>[](RunEnded /\ (phase = "Done" => AllDispatched))

\* run() has returned after two waves of one file each, the first file
\* extracted inline in chunks of one key with a yield between them, the
\* second by a worker
C37_Witness ==
    /\ phase = "Done"
    /\ Len(inputFiles) = 2 /\ Concurrency = 1
    /\ chunkSize = 1
    /\ 1 \in DOMAIN inline /\ inline[1].pc = "returned"
    /\ worker[2] = "ended"

====
